---- MODULE Spec2Model ----
(***************************************************************************)
(* A model of the PER/UPER encoder of rasn (src/per/enc.rs) together with  *)
(* the constraint model it reads (src/types/constraints.rs).               *)
(*                                                                         *)
(* A BitString is a sequence of cells.  A cell is either one literal bit   *)
(* or one "content" cell standing for the bits the caller's content        *)
(* callback returned for the index range [lo, hi) (v bits per unit).       *)
(* Option<T> is a sequence of length 0 (None) or 1 (Some).                 *)
(* A BTreeMap is a sequence of <<key, value>> pairs kept in key order.     *)
(***************************************************************************)
EXTENDS Integers, Sequences, FiniteSets, TLC

VARIABLES
    pc,       \* position of the running operation: "call", "loop", "fields", "done"
    call,     \* the operation invoked on self and its arguments
    self,     \* the Encoder the operation is invoked on
    encoder,  \* the child Encoder of the aggregate scope being filled
    buffer,   \* the BitString local to the running operation
    length,   \* local `length` of encode_unconstrained_length
    min,      \* local `min` of encode_unconstrained_length
    result,   \* what the operation returned
    supplied  \* history: the fields supplied to the aggregate scope so far

vars == <<pc, call, self, encoder, buffer, length, min, result, supplied>>

-----------------------------------------------------------------------------
(* Program constants *)

SIXTEEN_K == 16384
THIRTY_TWO_K == 32768
FOURTY_EIGHT_K == 49152
SIXTY_FOUR_K == 65536
TWO_FIFTY_SIX == 256
I128_BITS == 128
BYTE_WIDTH == 8
FRAGMENT_MARKER == 192
SIXTEENTH_BIT == 32768

-----------------------------------------------------------------------------
(* Option, results, cells *)

None == <<>>
Some(x) == <<x>>
IsSome(o) == Len(o) = 1
Unwrap(o) == o[1]

NoRange == [start |-> None, end |-> None]

Ok == [kind |-> "Ok", length |-> 0, expected |-> NoRange]
Pending == [kind |-> "Pending", length |-> 0, expected |-> NoRange]
Panic == [kind |-> "Panic", length |-> 0, expected |-> NoRange]
Custom == [kind |-> "Custom", length |-> 0, expected |-> NoRange]
InvalidLength(len, exp) == [kind |-> "InvalidLength", length |-> len, expected |-> exp]

Bit(b) == [k |-> "bit", v |-> b, lo |-> 0, hi |-> 0]
Content(w, lo, hi) == [k |-> "content", v |-> w, lo |-> lo, hi |-> hi]
Lit(bits) == [i \in 1..Len(bits) |-> Bit(bits[i])]
Zeros(n) == [i \in 1..n |-> 0]

CellLen(c) == IF c.k = "bit" THEN 1 ELSE (c.hi - c.lo) * c.v

RECURSIVE BitLen(_)
BitLen(bs) == IF bs = <<>> THEN 0 ELSE CellLen(Head(bs)) + BitLen(Tail(bs))

RECURSIVE Flatten(_)
Flatten(ss) == IF ss = <<>> THEN <<>> ELSE Head(ss) \o Flatten(Tail(ss))

ByteBits(b) == [i \in 1..8 |-> (b \div (2 ^ (8 - i))) % 2]
BitsOfBytes(bytes) == Flatten([i \in 1..Len(bytes) |-> ByteBits(bytes[i])])
from_slice(bytes) == Lit(BitsOfBytes(bytes))

\* usize / u32 to_be_bytes: the n low bytes of x, most significant first
\* (floor division, so a wrapped negative x yields its two's complement).
to_be_bytes(x, n) == [i \in 1..n |-> (x \div (2 ^ (8 * (n - i)))) % 256]

\* BigUint::to_bytes_be: minimal big-endian bytes; zero is one zero byte.
RECURSIVE to_bytes_be(_)
to_bytes_be(n) == IF n < 256 THEN <<n>> ELSE Append(to_bytes_be(n \div 256), n % 256)

\* BigInt::to_signed_bytes_be: minimal two's-complement big-endian bytes.
RECURSIVE SignedByteCount(_, _)
SignedByteCount(v, n) ==
    IF -(2 ^ (8 * n - 1)) <= v /\ v < 2 ^ (8 * n - 1) THEN n ELSE SignedByteCount(v, n + 1)
to_signed_bytes_be(v) == to_be_bytes(v, SignedByteCount(v, 1))

-----------------------------------------------------------------------------
(* src/per.rs *)

RECURSIVE BitLength(_)
BitLength(n) == IF n = 0 THEN 0 ELSE 1 + BitLength(n \div 2)

\* i128::BITS - (x - 1).leading_zeros()
log2(x) == IF x - 1 < 0 THEN I128_BITS ELSE BitLength(x - 1)

-----------------------------------------------------------------------------
(* src/types/constraints.rs *)

Range_range(r) ==
    IF IsSome(r.start) /\ IsSome(r.end)
    THEN Some((Unwrap(r.end) - Unwrap(r.start)) + (IF Unwrap(r.start) = 0 THEN 1 ELSE 0))
    ELSE None

\* mutant: the upper bound is not looked at
Range_contains_ignores_end(r, element) ==
    IsSome(r.start) => element >= Unwrap(r.start)

Range_contains(r, element) ==
    /\ (IsSome(r.start) => element >= Unwrap(r.start))
    /\ (IsSome(r.end) => element <= Unwrap(r.end))

\* Either::Left(offset) / Either::Right(value)
effective_value(r, value) ==
    IF IsSome(r.start)
    THEN [left |-> TRUE, v |-> value - Unwrap(r.start)]
    ELSE [left |-> FALSE, v |-> value]

\* mutant: the value is not offset from the lower bound
effective_bigint_value_no_offset(r, value) ==
    IF IsSome(r.start)
    THEN [left |-> TRUE, v |-> value]
    ELSE [left |-> FALSE, v |-> value]

effective_bigint_value(r, value) ==
    IF IsSome(r.start)
    THEN [left |-> TRUE, v |-> value - Unwrap(r.start)]
    ELSE [left |-> FALSE, v |-> value]

Constraint_is_extensible(c) == c.extensible

RECURSIVE find_kind(_, _)
find_kind(cs, kind) ==
    IF cs = <<>> THEN None
    ELSE IF Head(cs).kind = kind THEN Some(Head(cs))
    ELSE find_kind(Tail(cs), kind)

Constraints_size(cs) == find_kind(cs, "Size")
Constraints_value(cs) == find_kind(cs, "Value")
Constraints_extensible(cs) == \E i \in 1..Len(cs) : Constraint_is_extensible(cs[i])

-----------------------------------------------------------------------------
(* src/per/enc/error.rs *)

check_length(len, expected) ==
    IF Range_contains(expected, len) THEN Ok ELSE InvalidLength(len, expected)

-----------------------------------------------------------------------------
(* src/per/enc.rs: the Encoder and its bit-level primitives *)

EncoderOptions(aligned, set_encoding, debug) ==
    [aligned |-> aligned, set_encoding |-> set_encoding, debug_assertions |-> debug]

without_set_encoding(options) == [options EXCEPT !.set_encoding = FALSE]

Encoder_new(options) ==
    [options |-> options, output |-> <<>>, set_output |-> <<>>,
     field_bitfield |-> <<>>, extension_fields |-> <<>>]

NoEncoder == Encoder_new(EncoderOptions(FALSE, FALSE, FALSE))

pad_to_alignment(options, buf) ==
    IF options.aligned /\ BitLen(buf) % BYTE_WIDTH # 0
    THEN buf \o Lit(Zeros(BYTE_WIDTH - (BitLen(buf) % 8)))
    ELSE buf

\* constraints.extensible().then(|| { push(!cond); !cond }).unwrap_or_default()
encode_extensible_bit(constraints, buf, extensible_condition) ==
    IF Constraints_extensible(constraints)
    THEN [buffer |-> Append(buf, Bit(IF extensible_condition THEN 0 ELSE 1)),
          bit |-> ~extensible_condition]
    ELSE [buffer |-> buf, bit |-> FALSE]

encode_non_negative_binary_integer(options, buf, range, bytes) ==
    LET total_bits == log2(range)
        bits == BitsOfBytes(bytes)
        sized == IF total_bits > Len(bits)
                 THEN bits \o Zeros(total_bits - Len(bits))
                 ELSE IF total_bits < Len(bits)
                 THEN SubSeq(bits, Len(bits) - total_bits + 1, Len(bits))
                 ELSE bits
        padded == IF range >= TWO_FIFTY_SIX THEN pad_to_alignment(options, buf) ELSE buf
    IN  padded \o Lit(sized)

\* The content callback encode_fn: fn.kind = "units" stands for an opaque
\* callback over units of fn.w bits, "bytes" for |range| from_slice(&bytes[range]).
\* the bits of characters lo .. hi-1 of a character string, w bits each
RECURSIVE to_bitvec(_, _, _, _)
to_bitvec(chars, w, lo, hi) ==
    IF lo >= hi THEN <<>>
    ELSE [i \in 1..w |-> Bit((chars[lo + 1] \div (2 ^ (w - i))) % 2)]
             \o to_bitvec(chars, w, lo + 1, hi)

\* the mark left in a buffer by a callback that returned Err at element i; the
\* operation that ran the callback returns that error and drops the buffer
Failed(i) == [k |-> "error", v |-> i, lo |-> 0, hi |-> 0]

encode_fn(fn, lo, hi) ==
    IF fn.kind = "units" THEN <<Content(fn.w, lo, hi)>>
    ELSE IF fn.kind = "chars" THEN to_bitvec(fn.bytes, fn.w, lo, hi)
    ELSE IF fn.kind = "bits" THEN SubSeq(fn.bytes, lo + 1, hi)
    ELSE IF fn.kind = "elements"
    THEN IF \E i \in (lo + 1)..hi : fn.bytes[i].res # Ok
         THEN <<Failed(CHOOSE i \in (lo + 1)..hi :
                          /\ fn.bytes[i].res # Ok
                          /\ \A j \in (lo + 1)..(i - 1) : fn.bytes[j].res = Ok)>>
         ELSE Flatten([i \in 1..(hi - lo) |-> fn.bytes[lo + i].bits])
    ELSE from_slice(SubSeq(fn.bytes, lo + 1, hi))

UnitsFn(w) == [kind |-> "units", w |-> w, bytes |-> <<>>]
BytesFn(bytes) == [kind |-> "bytes", w |-> 8, bytes |-> bytes]
\* the closure of encode_sequence_of over elements already encoded: each is
\* [res, bits], the Result of E::encode and the element encoder's output
ElementsFn(elements) == [kind |-> "elements", w |-> 0, bytes |-> elements]
CharsFn(w, chars) == [kind |-> "chars", w |-> w, bytes |-> chars]

\* A frame is the state of a running encode_length / encode_unconstrained_length:
\* pc = "loop" at the head of the fragmentation loop, "done" once returned.
Frame(buf, res, at, len, mn) ==
    [buffer |-> buf, res |-> res, pc |-> at, length |-> len, min |-> mn]
Returned(buf, res) == Frame(buf, res, "done", 0, 0)

\* mutant: every fragment is a single 16K quantum
FragmentSelect_single_quantum(len) ==
    IF len >= SIXTEEN_K THEN <<1, SIXTEEN_K>> ELSE <<>>

\* the match on `length` in the fragmentation loop: <<fragment_index, amount>>,
\* or <<>> for the `_` arm
FragmentSelect(len) ==
    IF len >= SIXTY_FOUR_K THEN <<4, SIXTY_FOUR_K>>
    ELSE IF len >= FOURTY_EIGHT_K THEN <<3, FOURTY_EIGHT_K>>
    ELSE IF len >= THIRTY_TWO_K THEN <<2, THIRTY_TWO_K>>
    ELSE IF len >= SIXTEEN_K THEN <<1, SIXTEEN_K>>
    ELSE <<>>

\* mutant: a final full 16K fragment ends the stream with no zero byte
FragmentTail_no_terminator(buf, len, mn, amount) ==
    IF len = SIXTEEN_K
    THEN Returned(buf, Ok)
    ELSE Frame(buf, Ok, "loop", IF len >= amount THEN len - amount ELSE 0, mn)

\* mutant: the loop keeps the length it started the iteration with
FragmentTail_no_progress(buf, len, mn, amount) ==
    IF len = SIXTEEN_K
    THEN Returned(buf \o from_slice(<<0>>), Ok)
    ELSE Frame(buf, Ok, "loop", len, mn)

\* the end of one loop iteration, after the fragment was written
FragmentTail(buf, len, mn, amount) ==
    IF len = SIXTEEN_K
    THEN Returned(buf \o from_slice(<<0>>), Ok)
    ELSE Frame(buf, Ok, "loop", IF len >= amount THEN len - amount ELSE 0, mn)

\* mutant: the one-byte form is taken up to 128
encode_unconstrained_length_enter_off_by_one(options, buf, len, mn, fn) ==
    IF len <= 128
    THEN Returned(pad_to_alignment(options, buf \o from_slice(to_be_bytes(len, 1)))
                      \o encode_fn(fn, 0, len), Ok)
    ELSE IF len < SIXTEEN_K
    THEN Returned(buf \o from_slice(to_be_bytes(SIXTEENTH_BIT + len, 2))
                      \o encode_fn(fn, 0, len), Ok)
    ELSE Frame(buf, Ok, "loop", len, IF IsSome(mn) THEN Unwrap(mn) ELSE 0)

\* encode_unconstrained_length up to the head of its loop
encode_unconstrained_length_enter(options, buf, len, mn, fn) ==
    IF len <= 127
    THEN Returned(pad_to_alignment(options, buf \o from_slice(to_be_bytes(len, 1)))
                      \o encode_fn(fn, 0, len), Ok)
    ELSE IF len < SIXTEEN_K
    THEN Returned(buf \o from_slice(to_be_bytes(SIXTEENTH_BIT + len, 2))
                      \o encode_fn(fn, 0, len), Ok)
    ELSE Frame(buf, Ok, "loop", len, IF IsSome(mn) THEN Unwrap(mn) ELSE 0)

\* one iteration of the fragmentation loop
LoopIteration(options, f, fn) ==
    LET sel == FragmentSelect(f.length) IN
    IF sel = <<>>
    THEN encode_unconstrained_length_enter(options, f.buffer, f.length, Some(f.min), fn)
    ELSE LET marked == f.buffer \o from_slice(<<FRAGMENT_MARKER + sel[1]>>)
             filled == marked \o encode_fn(fn, f.min, f.min + sel[2])
         IN  FragmentTail(filled, f.length, f.min + sel[2], sel[2])

RECURSIVE RunLoop(_, _, _)
RunLoop(options, f, fn) ==
    IF f.pc = "done" THEN f ELSE RunLoop(options, LoopIteration(options, f, fn), fn)

encode_unconstrained_length(options, buf, len, mn, fn) ==
    RunLoop(options, encode_unconstrained_length_enter(options, buf, len, mn, fn), fn)

\* encode_length up to the head of the fragmentation loop
encode_length_enter(options, buf, len, constraints, fn) ==
    IF ~IsSome(constraints)
    THEN encode_unconstrained_length_enter(options, buf, len, None, fn)
    ELSE
    LET c == Unwrap(constraints)
        checked == IF ~c.extensible THEN check_length(len, c.constraint) ELSE Ok
        r == c.constraint
    IN
    IF checked # Ok THEN Returned(buf, checked)
    ELSE IF IsSome(r.start) /\ IsSome(r.end)
    THEN LET range == Unwrap(Range_range(r)) IN
         IF range = 0 THEN Returned(buf, Ok)
         ELSE IF range = 1 THEN Returned(buf \o encode_fn(fn, 0, len), Ok)
         ELSE IF range < SIXTY_FOUR_K /\ ~options.aligned
         THEN LET effective_length == effective_value(r, len).v IN
              IF effective_length < 0 /\ options.debug_assertions
              THEN Returned(buf, Panic)
              ELSE Returned(
                     encode_non_negative_binary_integer(
                         options, buf, range, to_be_bytes(effective_length, 4))
                       \o encode_fn(fn, 0, len), Ok)
         ELSE encode_unconstrained_length_enter(options, buf, len, None, fn)
    ELSE encode_unconstrained_length_enter(options, buf, len, None, fn)

encode_length(options, buf, len, constraints, fn) ==
    RunLoop(options, encode_length_enter(options, buf, len, constraints, fn), fn)

-----------------------------------------------------------------------------
(* src/per/enc.rs: merging into the scope's output, and the integer codec *)

\* Tag is <<class, value>>; its derived order is by class, then by value
Tag_less(a, b) == a[1] < b[1] \/ (a[1] = b[1] /\ a[2] < b[2])

\* BTreeMap<Tag, _>::insert on a sequence of <<key, value>> pairs kept in key
\* order
RECURSIVE BTreeMap_insert(_, _, _)
BTreeMap_insert(m, key, value) ==
    IF m = <<>> THEN <<<<key, value>>>>
    ELSE IF Head(m)[1] = key THEN <<<<key, value>>>> \o Tail(m)
    ELSE IF Tag_less(key, Head(m)[1]) THEN <<<<key, value>>>> \o m
    ELSE <<Head(m)>> \o BTreeMap_insert(Tail(m), key, value)

BTreeMap_values(m) == [i \in 1..Len(m) |-> m[i][2]]

\* mutant: a SET scope keeps its fields in the order they were written
extend_call_order(enc, tag, input) ==
    IF enc.options.set_encoding
    THEN [enc EXCEPT !.set_output = Append(@, <<tag, input>>)]
    ELSE [enc EXCEPT !.output = @ \o input]

\* Encoder::extend with Input::Bits / Input::Bit
extend(enc, tag, input) ==
    IF enc.options.set_encoding
    THEN [enc EXCEPT !.set_output = BTreeMap_insert(@, tag, input)]
    ELSE [enc EXCEPT !.output = @ \o input]

\* Range::bigint_contains is declared outside the files at hand: it is taken to
\* be Range::contains on big integers.
bigint_contains(r, value) ==
    /\ (IsSome(r.start) => value >= Unwrap(r.start))
    /\ (IsSome(r.end) => value <= Unwrap(r.end))

encode_integer_into_buffer(options, constraints, value, buf) ==
    LET value_range == Constraints_value(constraints)
        ext == encode_extensible_bit(constraints, buf,
                   /\ IsSome(value_range)
                   /\ Unwrap(value_range).extensible
                   /\ bigint_contains(Unwrap(value_range).constraint, value))
    IN
    IF ~IsSome(value_range)
    THEN LET bytes == to_signed_bytes_be(value) IN
         encode_length(options, ext.buffer, Len(bytes), Constraints_size(constraints),
                       BytesFn(bytes))
    ELSE
    LET effective == effective_bigint_value(Unwrap(value_range).constraint, value) IN
    IF effective.left /\ effective.v < 0
    THEN Returned(ext.buffer, Panic)  \* debug_assert!(value >= start) / to_biguint().unwrap()
    ELSE
    LET bytes == IF effective.left THEN to_bytes_be(effective.v)
                 ELSE to_signed_bytes_be(effective.v)
        range == Range_range(Unwrap(value_range).constraint)
    IN  IF IsSome(range) /\ Unwrap(range) < SIXTY_FOUR_K
        THEN Returned(encode_non_negative_binary_integer(
                          options, ext.buffer, Unwrap(range), bytes), Ok)
        ELSE encode_length(options, ext.buffer, Len(bytes), None, BytesFn(bytes))

\* an Encoder operation returns the Encoder it leaves behind and its Result
Outcome(enc, res) == [encoder |-> enc, res |-> res]

encode_integer(enc, tag, constraints, value) ==
    LET f == encode_integer_into_buffer(enc.options, constraints, value, <<>>) IN
    IF f.res # Ok THEN Outcome(enc, f.res)
    ELSE Outcome(extend(enc, tag, f.buffer), Ok)

up_to(value) == [start |-> None, end |-> Some(value)]
start_from(value) == [start |-> Some(value), end |-> None]
Bounded_new(start, end) == [start |-> Some(start), end |-> Some(end)]

Extensible_new(kind, constraint) ==
    [kind |-> kind, constraint |-> constraint, extensible |-> FALSE]

encode_enumerated(enc, tag, variance, value) ==
    encode_integer(enc, tag, <<Extensible_new("Size", up_to(variance))>>, value)

encode_bool(enc, tag, value) ==
    Outcome(extend(enc, tag, <<Bit(IF value THEN 1 ELSE 0)>>), Ok)

-----------------------------------------------------------------------------
(* src/per/enc.rs: octet strings, normally small integers, scopes *)

\* BitString::into_vec: the bytes holding the bits, the last one zero-filled
into_vec(cells) ==
    LET bits == [i \in 1..Len(cells) |-> cells[i].v]
        n == (Len(bits) + 7) \div 8
        full == bits \o Zeros(8 * n - Len(bits))
        RECURSIVE Byte(_, _)
        Byte(i, j) == IF j > 8 THEN 0 ELSE full[8 * (i - 1) + j] * (2 ^ (8 - j)) + Byte(i, j + 1)
    IN  [i \in 1..n |-> Byte(i, 1)]

bitstring_output(enc) ==
    LET out == IF enc.options.set_encoding
               THEN Flatten(BTreeMap_values(enc.set_output))
               ELSE enc.output
    IN  IF BitLen(out) < 8 THEN out \o Lit(Zeros(8 - BitLen(out))) ELSE out

Encoder_output(enc) == into_vec(bitstring_output(enc))

encode_octet_string_into_buffer(options, constraints, value, buf) ==
    IF Constraints_extensible(constraints)
    THEN Returned(buf, Panic)  \* the extensible condition is todo!()
    ELSE
    LET size == Constraints_size(constraints) IN
    IF ~IsSome(size)
    THEN encode_length(options, buf, Len(value), None, BytesFn(value))
    ELSE IF 0 = effective_value(Unwrap(size).constraint, Len(value)).v
    THEN Returned(buf, Ok)
    ELSE IF effective_value(Unwrap(size).constraint, Len(value)).v < 0
            /\ options.debug_assertions
    THEN Returned(buf, Panic)
    ELSE encode_length(options, buf, Len(value), size, BytesFn(value))

encode_normally_small_integer(options, value, buf) ==
    LET is_large == value >= 64
        pushed == Append(buf, Bit(IF is_large THEN 1 ELSE 0))
        size_constraints == IF is_large
                            THEN Extensible_new("Value", start_from(0))
                            ELSE Extensible_new("Value", Bounded_new(0, 63))
    IN  encode_integer_into_buffer(options, <<size_constraints>>, value, pushed)

require_fields(enc) == IF enc.field_bitfield = <<>> THEN Panic ELSE Ok

\* BTreeMap::entry(tag).and_modify(|b| *b = bit)
and_modify(m, key, value) ==
    [i \in 1..Len(m) |-> IF m[i][1] = key THEN <<key, value>> ELSE m[i]]

set_bit(enc, tag, bit) ==
    IF require_fields(enc) # Ok THEN Outcome(enc, Panic)
    ELSE Outcome([enc EXCEPT !.field_bitfield = and_modify(@, tag, bit)], Ok)

\* A Field is [tag, presence, ty]; Fields::optional_and_default_fields
optional_and_default_fields(fields) ==
    SelectSeq(fields, LAMBDA f : f.presence \in {"optional", "default"})

\* Fields::canonised: the fields sorted by tag
RECURSIVE canonised(_)
canonised(fields) ==
    IF fields = <<>> THEN <<>>
    ELSE LET least == CHOOSE i \in 1..Len(fields) :
                          \A j \in 1..Len(fields) : ~Tag_less(fields[j].tag, fields[i].tag)
         IN  <<fields[least]>>
                 \o canonised(SubSeq(fields, 1, least - 1)
                                  \o SubSeq(fields, least + 1, Len(fields)))

\* TagTree::smallest_tag of a field whose type has one tag
TagTree_smallest_tag(field) == field.tag

\* Iterator::collect into a BTreeMap<Tag, bool>
RECURSIVE collect_bitfield(_)
collect_bitfield(fields) ==
    IF fields = <<>> THEN <<>>
    ELSE BTreeMap_insert(collect_bitfield(SubSeq(fields, 1, Len(fields) - 1)),
                         TagTree_smallest_tag(fields[Len(fields)]), FALSE)

new_set_encoder(enc, FIELDS) ==
    [Encoder_new([enc.options EXCEPT !.set_encoding = TRUE])
        EXCEPT !.field_bitfield =
                   collect_bitfield(optional_and_default_fields(canonised(FIELDS)))]

new_sequence_encoder(enc, FIELDS) ==
    [Encoder_new(without_set_encoding(enc.options))
        EXCEPT !.field_bitfield = collect_bitfield(optional_and_default_fields(FIELDS))]

encoded_extension_addition(enc) == enc.extension_fields = <<>>

\* the second `buffer` of encode_constructed: the number of extension fields as
\* a length-prefixed normally small integer, then every field length-prefixed
RECURSIVE encode_extension_fields(_, _, _)
encode_extension_fields(options, f, extension_fields) ==
    IF f.res # Ok \/ extension_fields = <<>> THEN f
    ELSE encode_extension_fields(
             options,
             encode_length(options, f.buffer, Len(Head(extension_fields)), None,
                           BytesFn(Head(extension_fields))),
             Tail(extension_fields))

extension_buffer(options, extension_fields) ==
    LET fields(bitfield) ==
            IF bitfield.res # Ok THEN bitfield
            ELSE encode_extension_fields(
                     options,
                     encode_length(options, <<>>, Len(bitfield.buffer), None,
                                   [kind |-> "bits", w |-> 1, bytes |-> bitfield.buffer]),
                     extension_fields)
    IN  fields(encode_normally_small_integer(options, Len(extension_fields), <<>>))

\* The extension additions are encoded into a buffer local to encode_constructed
\* that is dropped on return: only a failure of that part is seen by the caller.
encode_constructed(enc, tag, constraints, child) ==
    LET ext == encode_extensible_bit(constraints, <<>>, encoded_extension_addition(child))
        flags == [i \in 1..Len(child.field_bitfield) |->
                     Bit(IF child.field_bitfield[i][2] THEN 1 ELSE 0)]
        head == pad_to_alignment(enc.options, ext.buffer \o flags)
        return(extended) ==
            IF child.extension_fields = <<>> THEN Outcome(extended, Ok)
            ELSE Outcome(extended, extension_buffer(enc.options, child.extension_fields).res)
    IN  return(extend(enc, tag, head \o bitstring_output(child)))

encode_octet_string(enc, tag, constraints, value) ==
    LET f == encode_octet_string_into_buffer(enc.options, constraints, value, <<>>) IN
    IF f.res # Ok THEN Outcome(enc, f.res)
    ELSE Outcome(extend(enc, tag, f.buffer), Ok)

\* the Encode impl of a field or alternative value of type ty: BOOLEAN,
\* OCTET STRING (SIZE(0..1)) or INTEGER (0..3)
Value_encode_with_tag(enc, tag, ty, value) ==
    IF ty = "BOOLEAN" THEN encode_bool(enc, tag, value)
    ELSE IF ty = "OCTET STRING"
    THEN encode_octet_string(enc, tag, <<Extensible_new("Size", Bounded_new(0, 1))>>, value)
    ELSE encode_integer(enc, tag, <<Extensible_new("Value", Bounded_new(0, 3))>>, value)

encode_some_with_tag(enc, tag, ty, value) ==
    LET s == set_bit(enc, tag, TRUE) IN
    IF s.res # Ok THEN s ELSE Value_encode_with_tag(s.encoder, tag, ty, value)

encode_none_with_tag(enc, tag) == set_bit(enc, tag, FALSE)

\* BTreeMap::get
BTreeMap_get(m, key) ==
    IF \E i \in 1..Len(m) : m[i][1] = key
    THEN Some(m[CHOOSE i \in 1..Len(m) : m[i][1] = key][2])
    ELSE None

\* the Encode impl of Option<T>: encode_some_with_tag or encode_none_with_tag
Option_encode_with_tag(enc, tag, ty, present, value) ==
    IF present THEN encode_some_with_tag(enc, tag, ty, value)
    ELSE encode_none_with_tag(enc, tag)

\* a value is [presence, ty, present, value]: an Option<T> when presence is
\* "optional", a T otherwise
encode_extension_addition(enc, tag, v) ==
    IF require_fields(enc) # Ok THEN Outcome(enc, Panic)
    ELSE
    LET fresh == [Encoder_new(without_set_encoding(enc.options))
                     EXCEPT !.field_bitfield = BTreeMap_insert(<<>>, tag, TRUE)]
        push(o, set) ==
            IF o.res # Ok THEN Outcome(enc, o.res)
            ELSE IF IsSome(set) /\ Unwrap(set)
            THEN Outcome([enc EXCEPT !.extension_fields = Append(@, Encoder_output(o.encoder))], Ok)
            ELSE Outcome([enc EXCEPT !.extension_fields = Append(@, <<>>)], Ok)
        get(o) == push(o, BTreeMap_get(o.encoder.field_bitfield, tag))
    IN  get(IF v.presence = "optional"
            THEN Option_encode_with_tag(fresh, tag, v.ty, v.present, v.value)
            ELSE Value_encode_with_tag(fresh, tag, v.ty, v.value))

\* the closure of encode_sequence over FIELDS and their values, in declaration
\* order
RECURSIVE encode_fields(_, _, _)
encode_fields(o, FIELDS, values) ==
    IF o.res # Ok \/ FIELDS = <<>> THEN o
    ELSE LET f == Head(FIELDS)
             v == Head(values)
         IN  encode_fields(
                 IF f.presence = "optional"
                 THEN Option_encode_with_tag(o.encoder, f.tag, f.ty, v.present, v.value)
                 ELSE Value_encode_with_tag(o.encoder, f.tag, f.ty, v.value),
                 Tail(FIELDS), Tail(values))

\* mutant: a failed closure leaves what it wrote in the parent
encode_sequence_keeps_partial(enc, tag, constraints, FIELDS, values) ==
    LET finish(scope) ==
            IF scope.res # Ok
            THEN Outcome(extend(enc, tag, bitstring_output(scope.encoder)), scope.res)
            ELSE encode_constructed(enc, tag, constraints, scope.encoder)
    IN  finish(encode_fields(Outcome(new_sequence_encoder(enc, FIELDS), Ok), FIELDS, values))

\* Encoder::encode_sequence, its closure run to the end
encode_sequence(enc, tag, constraints, FIELDS, values) ==
    LET finish(scope) ==
            IF scope.res # Ok THEN Outcome(enc, scope.res)
            ELSE encode_constructed(enc, tag, constraints, scope.encoder)
    IN  finish(encode_fields(Outcome(new_sequence_encoder(enc, FIELDS), Ok), FIELDS, values))

\* value.encode(&mut encoder) of the group type E is its encode_sequence
encode_extension_addition_group(enc, tag, FIELDS, values) ==
    IF require_fields(enc) # Ok THEN Outcome(enc, Panic)
    ELSE
    LET push(o) ==
            IF o.res # Ok THEN Outcome(enc, o.res)
            ELSE IF \E i \in 1..Len(o.encoder.field_bitfield) : o.encoder.field_bitfield[i][2]
            THEN Outcome([enc EXCEPT !.extension_fields = Append(@, Encoder_output(o.encoder))], Ok)
            ELSE Outcome([enc EXCEPT !.extension_fields = Append(@, <<>>)], Ok)
    IN  push(encode_sequence(new_sequence_encoder(enc, FIELDS), tag, <<>>, FIELDS, values))

\* TagTree::tag_contains(&tag, E::VARIANTS)
tag_contains(tag, variants) == \E i \in 1..Len(variants) : variants[i] = tag

\* variants.iter().enumerate().find_map(..): the zero-based index of tag
find_variant(variants, tag) ==
    IF tag_contains(tag, variants)
    THEN Some((CHOOSE i \in 1..Len(variants) :
                  variants[i] = tag /\ \A j \in 1..(i - 1) : variants[j] # tag) - 1)
    ELSE None

\* encode_choice once encode_fn has filled choice_encoder and returned tag
encode_choice(enc, constraints, VARIANTS, EXTENDED_VARIANTS, choice_encoder, tag) ==
    LET is_root_extension == tag_contains(tag, VARIANTS)
        ext == encode_extensible_bit(constraints, <<>>, is_root_extension)
        variants == IF is_root_extension THEN VARIANTS ELSE EXTENDED_VARIANTS
        index == find_variant(variants, tag)
    IN
    IF ~IsSome(index) THEN Outcome(enc, Custom)
    ELSE IF is_root_extension /\ Len(variants) # 1
    THEN LET f == encode_integer_into_buffer(
                      enc.options,
                      <<Extensible_new("Value", Bounded_new(0, Len(variants)))>>,
                      Unwrap(index), ext.buffer)
         IN  IF f.res # Ok THEN Outcome(enc, f.res)
             ELSE Outcome(extend(enc, tag, f.buffer \o choice_encoder.output), Ok)
    ELSE IF ~is_root_extension
    THEN LET n == encode_normally_small_integer(enc.options, Unwrap(index), ext.buffer)
             f == encode_octet_string_into_buffer(
                      enc.options, <<>>, Encoder_output(choice_encoder),
                      pad_to_alignment(enc.options, n.buffer))
         IN  IF n.res # Ok THEN Outcome(enc, n.res)
             ELSE IF f.res # Ok THEN Outcome(enc, f.res)
             ELSE Outcome(extend(enc, tag, f.buffer), Ok)
    ELSE Outcome(extend(enc, tag, ext.buffer), Ok)

-----------------------------------------------------------------------------
(* Bounds of the model and the inputs drawn from them *)

MaxQuanta == 7     \* lengths span 0 .. (MaxQuanta + 1) * 16384 - 1
MaxSize == 3       \* small Size bounds 0 .. MaxSize

Remainders == (0..(MaxSize + 1)) \cup {127, 128, 696, SIXTEEN_K - 1}
Lengths == {q * SIXTEEN_K + r : q \in 0..MaxQuanta, r \in Remainders}

SizeBounds == (0..MaxSize) \cup {64, SIXTY_FOUR_K - 1, SIXTY_FOUR_K + 1}
OptionOf(S) == {None} \cup {Some(x) : x \in S}

\* Range<T> keeps start <= end when both are present (Range::new)
Ranges(S) ==
    {r \in [start : OptionOf(S), end : OptionOf(S)] :
        (IsSome(r.start) /\ IsSome(r.end)) => Unwrap(r.start) <= Unwrap(r.end)}

Extensible(kind, constraint, extensible) ==
    [kind |-> kind, constraint |-> constraint, extensible |-> extensible]

SizeConstraints == {Extensible("Size", r, e) : r \in Ranges(SizeBounds), e \in BOOLEAN}

TopLevelEncoders ==
    {Encoder_new(EncoderOptions(a, FALSE, d)) : a \in BOOLEAN, d \in BOOLEAN}

-----------------------------------------------------------------------------
(* SpecLength: Encoder::encode_length on a caller's buffer, the             *)
(* fragmentation loop of encode_unconstrained_length taken step by step.    *)

InitLength ==
    /\ pc = "call"
    /\ self \in TopLevelEncoders
    /\ \E len \in Lengths, c \in OptionOf(SizeConstraints), w \in {1, 8},
          b \in {<<>>, Lit(<<1>>)} :
          call = [op |-> "encode_length", buffer |-> b, length |-> len,
                  constraints |-> c, fn |-> UnitsFn(w)]
    /\ buffer = call.buffer
    /\ length = call.length
    /\ min = 0
    /\ result = Pending
    /\ encoder = NoEncoder
    /\ supplied = <<>>

Resume(f) ==
    /\ buffer' = f.buffer
    /\ pc' = f.pc
    /\ length' = IF f.pc = "loop" THEN f.length ELSE length
    /\ min' = IF f.pc = "loop" THEN f.min ELSE min
    /\ result' = IF f.pc = "loop" THEN Pending ELSE f.res

EncodeLength ==
    /\ pc = "call"
    /\ call.op = "encode_length"
    /\ Resume(encode_length_enter(self.options, buffer, call.length, call.constraints, call.fn))
    /\ UNCHANGED <<call, self, encoder, supplied>>

FragmentLoop ==
    /\ pc = "loop"
    /\ Resume(LoopIteration(self.options, Frame(buffer, Ok, "loop", length, min), call.fn))
    /\ UNCHANGED <<call, self, encoder, supplied>>

NextLength == EncodeLength \/ FragmentLoop

SpecLength == InitLength /\ [][NextLength]_vars

-----------------------------------------------------------------------------
(* Reference notions the properties are stated with *)

\* the `width`-bit big-endian binary form of n
NumBits(n, width) == [i \in 1..width |-> (n \div (2 ^ (width - i))) % 2]

\* the zero bits that bring a buffer of `bits` bits to a byte boundary
AlignBits(aligned, bits) == IF aligned THEN Zeros((8 - (bits % 8)) % 8) ELSE <<>>

IsPrefix(p, s) == Len(p) <= Len(s) /\ SubSeq(s, 1, Len(p)) = p

\* the bit offset at which cell i of buf starts
StartsAt(buf, i) == BitLen(SubSeq(buf, 1, i - 1))

BitsValue(cells) ==
    LET n == Len(cells)
        RECURSIVE Sum(_)
        Sum(i) == IF i > n THEN 0 ELSE cells[i].v * (2 ^ (n - i)) + Sum(i + 1)
    IN  Sum(1)

\* the byte of literal bits at byte offset o of buf, -1 when there is none
ByteAt(buf, o) ==
    LET S == {i \in 1..(Len(buf) - 7) :
                 /\ \A j \in 0..7 : buf[i + j].k = "bit"
                 /\ StartsAt(buf, i) = 8 * o}
    IN  IF S = {} THEN -1
        ELSE LET i == CHOOSE i \in S : TRUE IN BitsValue(SubSeq(buf, i, i + 7))

\* what the running encode_length call has appended to the caller's buffer
Appended == SubSeq(buffer, Len(call.buffer) + 1, Len(buffer))

UnconstrainedCall == call.op = "encode_length" /\ call.constraints = None

\* the largest k in {4,3,2,1} with k * 16384 <= remaining
GreedyK(remaining) ==
    CHOOSE k \in 1..4 :
        /\ k * 16384 <= remaining
        /\ \A j \in 1..4 : j * 16384 <= remaining => j <= k

RECURSIVE GreedyFragments(_, _, _)
GreedyFragments(remaining, at, w) ==
    IF remaining < 16384 THEN <<>>
    ELSE LET k == GreedyK(remaining) IN
         Lit(NumBits(192 + k, 8)) \o <<Content(w, at, at + k * 16384)>>
             \o GreedyFragments(remaining - k * 16384, at + k * 16384, w)

\* the length determinant at the head of `cells`
ReadDeterminant(cells) ==
    IF Len(cells) < 8 \/ \E i \in 1..8 : cells[i].k # "bit"
    THEN [form |-> "none", value |-> 0, size |-> 0]
    ELSE LET b1 == BitsValue(SubSeq(cells, 1, 8)) IN
         IF b1 < 128 THEN [form |-> "short", value |-> b1, size |-> 8]
         ELSE IF b1 >= 192 THEN [form |-> "fragment", value |-> b1 - 192, size |-> 8]
         ELSE IF Len(cells) < 16 \/ \E i \in 9..16 : cells[i].k # "bit"
         THEN [form |-> "none", value |-> 0, size |-> 0]
         ELSE [form |-> "long", value |-> BitsValue(SubSeq(cells, 3, 16)), size |-> 16]

\* the last length determinant of a fragment stream
RECURSIVE LastDeterminant(_)
LastDeterminant(cells) ==
    LET d == ReadDeterminant(cells) IN
    IF d.form = "fragment" /\ Len(cells) > 9 /\ cells[9].k = "content"
    THEN LastDeterminant(SubSeq(cells, 10, Len(cells)))
    ELSE d

InRange(r, x) ==
    /\ (r.start = None \/ r.start[1] <= x)
    /\ (r.end = None \/ x <= r.end[1])

-----------------------------------------------------------------------------
(* Properties of the length codec (SpecLength) *)

\* C1: in the unconstrained length form a length L <= 127 is written as the one
\* byte L (high bit 0), a length 128 <= L < 16384 as two bytes 10 + 14 bits of L,
\* and L = 16384 as marker 0xC1, the content for 16384 units, then the byte 0x00.
\* (In the aligned variant the one-byte form is followed by alignment padding.)
C1_LengthForms ==
    (pc = "done" /\ UnconstrainedCall) =>
        LET L == call.length
            w == call.fn.w
        IN  /\ result = Ok
            /\ L <= 127 =>
                 /\ NumBits(L, 8)[1] = 0
                 /\ Appended = Lit(NumBits(L, 8))
                        \o Lit(AlignBits(self.options.aligned, Len(call.buffer) + 8))
                        \o <<Content(w, 0, L)>>
            /\ (128 <= L /\ L < 16384) =>
                 Appended = Lit(<<1, 0>> \o NumBits(L, 14)) \o <<Content(w, 0, L)>>
            /\ L = 16384 =>
                 Appended = Lit(NumBits(193, 8)) \o <<Content(w, 0, 16384)>>
                        \o Lit(NumBits(0, 8))

C1_Witness ==
    /\ pc = "done" /\ UnconstrainedCall /\ call.length = 16384 /\ result = Ok
    /\ ByteAt(Appended, 0) = 193

\* C2: for a length >= 16384 the fragments are chosen greedily: each marker is
\* 0xC0|k for the largest k in {4,3,2,1} with k*16384 <= remaining, carries
\* k*16384 units, and remaining decreases by k*16384; length 99000 of one-byte
\* units has 0xC4 at byte 0, 0xC2 at byte 1+65536, the final length 0x82 0xB8
\* at byte 65536+32768+2, and 99000+4 bytes in all.
C2_GreedyFragments ==
    /\ pc = "loop" =>
         /\ length + min = call.length
         /\ Appended \o GreedyFragments(length, min, call.fn.w)
                = GreedyFragments(call.length, 0, call.fn.w)
    /\ (pc = "done" /\ UnconstrainedCall /\ call.length >= 16384) =>
         LET g == GreedyFragments(call.length, 0, call.fn.w)
             tail == SubSeq(Appended, Len(g) + 1, Len(Appended))
         IN  /\ IsPrefix(g, Appended)
             /\ \A i \in 1..Len(tail) :
                    tail[i].k = "content" => tail[i].hi - tail[i].lo < 16384
    /\ (pc = "done" /\ UnconstrainedCall /\ call.length = 99000
          /\ call.fn.w = 8 /\ call.buffer = <<>>) =>
         /\ ByteAt(buffer, 0) = 196
         /\ ByteAt(buffer, 1 + 65536) = 194
         /\ ByteAt(buffer, 65536 + 32768 + 2) = 130
         /\ ByteAt(buffer, 65536 + 32768 + 3) = 184
         /\ BitLen(buffer) = 8 * (99000 + 4)

C2_Witness ==
    /\ pc = "done" /\ UnconstrainedCall /\ call.length = 99000
    /\ call.fn.w = 8 /\ call.buffer = <<>>
    /\ ByteAt(buffer, 1 + 65536) = 194

\* C3: for a length >= 16384 the last length determinant written is never a
\* fragment marker: the stream ends with a one- or two-byte length below 16384,
\* which is the byte 0x00 when the length is an exact multiple of 16384.
C3_FragmentStreamTerminated ==
    (pc = "done" /\ UnconstrainedCall /\ call.length >= 16384) =>
        LET d == LastDeterminant(Appended) IN
        /\ d.form \in {"short", "long"}
        /\ d.value < 16384
        /\ (call.length % 16384 = 0) => (d.form = "short" /\ d.value = 0)

C3_Witness ==
    /\ pc = "done" /\ UnconstrainedCall /\ call.length = 2 * 16384
    /\ LastDeterminant(Appended).form = "short"

\* C10: with a non-extensible Size constraint encode_length returns InvalidLength
\* carrying the length and the constraint's range exactly when the length is
\* outside the range, and then appends nothing; with an extensible Size
\* constraint or none it never returns InvalidLength.
C10_InvalidLength ==
    (pc # "call" /\ call.op = "encode_length") =>
        LET c == call.constraints IN
        IF IsSome(c) /\ ~c[1].extensible
        THEN IF InRange(c[1].constraint, call.length)
             THEN result.kind # "InvalidLength"
             ELSE /\ pc = "done"
                  /\ result = InvalidLength(call.length, c[1].constraint)
                  /\ buffer = call.buffer
        ELSE result.kind # "InvalidLength"

C10_Witness ==
    /\ pc = "done" /\ result.kind = "InvalidLength"
    /\ IsSome(call.constraints) /\ IsSome(call.constraints[1].constraint.end)
    /\ call.length > call.constraints[1].constraint.end[1]
    /\ buffer = call.buffer

-----------------------------------------------------------------------------
(* SpecInteger: Encoder::encode_integer and Encoder::encode_enumerated on a  *)
(* top-level Encoder.                                                       *)

MaxInt == 3        \* small integer values -MaxInt .. MaxInt
MaxVariance == 2   \* encode_enumerated variances 0 .. MaxVariance

INTEGER == <<0, 2>>   \* Tag::INTEGER

IntValues ==
    ((-MaxInt)..MaxInt) \cup {-129, -128, 5, 20, 80, 127, 128, 255, 256, 320, 4096, 65535, 65536}
ValueBounds == {-1, 0, 1, 2, 255, 1023, 65535, 70000}

ValueConstraints == {Extensible("Value", r, e) : r \in Ranges(ValueBounds), e \in BOOLEAN}
IntegerSizeConstraints ==
    {Extensible("Size", r, FALSE) : r \in {Bounded_new(0, 3), Bounded_new(1, 1), up_to(1)}}
ExtensibleMarker == Extensible("Extensible", NoRange, TRUE)

IntegerConstraints ==
    {<<>>, <<ExtensibleMarker>>}
        \cup {<<v>> : v \in ValueConstraints}
        \cup {<<s>> : s \in IntegerSizeConstraints}
        \cup {<<v, s>> : v \in ValueConstraints, s \in IntegerSizeConstraints}

InitInteger ==
    /\ pc = "call"
    /\ self \in TopLevelEncoders
    /\ \/ \E c \in IntegerConstraints, v \in IntValues :
             call = [op |-> "encode_integer", tag |-> INTEGER, constraints |-> c,
                     variance |-> 0, value |-> v]
       \/ \E n \in 0..MaxVariance, v \in 0..MaxVariance :
             call = [op |-> "encode_enumerated", tag |-> INTEGER, constraints |-> <<>>,
                     variance |-> n, value |-> v]
    /\ buffer = <<>>
    /\ length = 0
    /\ min = 0
    /\ result = Pending
    /\ encoder = NoEncoder
    /\ supplied = <<>>

Return(o) ==
    /\ self' = o.encoder
    /\ result' = o.res
    /\ pc' = "done"

EncodeInteger ==
    /\ pc = "call"
    /\ call.op = "encode_integer"
    /\ Return(encode_integer(self, call.tag, call.constraints, call.value))
    /\ UNCHANGED <<call, encoder, buffer, length, min, supplied>>

EncodeEnumerated ==
    /\ pc = "call"
    /\ call.op = "encode_enumerated"
    /\ Return(encode_enumerated(self, call.tag, call.variance, call.value))
    /\ UNCHANGED <<call, encoder, buffer, length, min, supplied>>

NextInteger == EncodeInteger \/ EncodeEnumerated

SpecInteger == InitInteger /\ [][NextInteger]_vars

-----------------------------------------------------------------------------
(* The integer decoder.  src/per/de.rs is not among the files at hand; the  *)
(* decoder is the inverse the specification describes for the Integer Codec *)
(* (section 4.3) and the Length Codec (section 4.2).                        *)

Raw(cells) == [i \in 1..Len(cells) |-> cells[i].v]

BitsNum(bits) ==
    LET n == Len(bits)
        RECURSIVE Sum(_)
        Sum(i) == IF i > n THEN 0 ELSE bits[i] * (2 ^ (n - i)) + Sum(i + 1)
    IN  Sum(1)

\* the least k with 2^k >= n, for n >= 1
CeilLog2(n) == CHOOSE k \in 0..17 : 2 ^ k >= n /\ (k = 0 \/ 2 ^ (k - 1) < n)

Decoded(ok, value) == [ok |-> ok, value |-> value]

AlignUp(aligned, pos) == IF aligned THEN pos + ((8 - (pos % 8)) % 8) ELSE pos

\* a length-prefixed byte string at bit position pos (lengths below 16384)
decode_length_prefixed(aligned, bits, pos, signed) ==
    IF Len(bits) < pos + 8 THEN Decoded(FALSE, 0)
    ELSE
    LET b1 == BitsNum(SubSeq(bits, pos + 1, pos + 8))
        long == b1 >= 128
    IN
    IF b1 >= 192 \/ (long /\ Len(bits) < pos + 16) THEN Decoded(FALSE, 0)
    ELSE
    LET len == IF long THEN BitsNum(SubSeq(bits, pos + 3, pos + 16)) ELSE b1
        at == AlignUp(aligned, pos + (IF long THEN 16 ELSE 8))
    IN
    IF len = 0 \/ len > 3 \/ Len(bits) < at + 8 * len THEN Decoded(FALSE, 0)
    ELSE
    LET body == SubSeq(bits, at + 1, at + 8 * len)
        n == BitsNum(body)
    IN  Decoded(TRUE, IF signed /\ body[1] = 1 THEN n - 2 ^ (8 * len) ELSE n)

decode_integer(aligned, constraints, bits) ==
    LET pos == IF Constraints_extensible(constraints) THEN 1 ELSE 0
        value_range == Constraints_value(constraints)
    IN
    IF Len(bits) < pos THEN Decoded(FALSE, 0)
    ELSE IF ~IsSome(value_range)
    THEN decode_length_prefixed(aligned, bits, pos, TRUE)
    ELSE
    LET r == Unwrap(value_range).constraint IN
    IF IsSome(r.start) /\ IsSome(r.end) /\ Unwrap(r.end) - Unwrap(r.start) + 1 < 65536
    THEN LET range == Unwrap(r.end) - Unwrap(r.start) + 1
             width == CeilLog2(range)
             at == IF range >= 256 THEN AlignUp(aligned, pos) ELSE pos
         IN  IF Len(bits) < at + width THEN Decoded(FALSE, 0)
             ELSE Decoded(TRUE, Unwrap(r.start) + BitsNum(SubSeq(bits, at + 1, at + width)))
    ELSE IF IsSome(r.start)
    THEN LET d == decode_length_prefixed(aligned, bits, pos, FALSE) IN
         Decoded(d.ok, Unwrap(r.start) + d.value)
    ELSE decode_length_prefixed(aligned, bits, pos, TRUE)

-----------------------------------------------------------------------------
(* Properties of the integer codec (SpecInteger) *)

IntegerCall == call.op = "encode_integer"
ValueRange == Unwrap(Constraints_value(call.constraints)).constraint
HasValue == IntegerCall /\ IsSome(Constraints_value(call.constraints))

\* the minimal unsigned big-endian bytes of n >= 0, as bits
MinUnsigned(n) ==
    LET k == CHOOSE k \in 1..3 : n < 2 ^ (8 * k) /\ (k = 1 \/ n >= 2 ^ (8 * (k - 1)))
    IN  NumBits(n, 8 * k)

\* the minimal two's-complement big-endian bytes of v, as bits
MinSigned(v) ==
    LET fits(k) == -(2 ^ (8 * k - 1)) <= v /\ v < 2 ^ (8 * k - 1)
        k == CHOOSE k \in 1..3 : fits(k) /\ (k = 1 \/ ~fits(k - 1))
    IN  NumBits(v % (2 ^ (8 * k)), 8 * k)

\* a byte string behind its one-byte length
LengthPrefixed(bits) == NumBits(Len(bits) \div 8, 8) \o bits

\* C4: with a Value constraint with both bounds and range = upper - lower + 1
\* below 65536, encode_integer emits for every value inside the bounds exactly
\* ceil(log2(range)) bits, the big-endian binary form of value - lower, with no
\* length prefix.
C4_FixedWidthOffset ==
    (/\ pc = "done" /\ HasValue
     /\ ~Constraints_extensible(call.constraints)
     /\ IsSome(ValueRange.start) /\ IsSome(ValueRange.end)
     /\ Unwrap(ValueRange.end) - Unwrap(ValueRange.start) + 1 < 65536
     /\ InRange(ValueRange, call.value)) =>
        /\ result = Ok
        /\ self.output =
              Lit(NumBits(call.value - Unwrap(ValueRange.start),
                          CeilLog2(Unwrap(ValueRange.end) - Unwrap(ValueRange.start) + 1)))

\* C5: with no Value constraint encode_integer emits the minimal two's-complement
\* big-endian bytes of the value behind their byte count in the unconstrained
\* length form, and no Size constraint changes that or makes the call fail.
C5_UnconstrainedIgnoresSize ==
    (/\ pc = "done"
     /\ call.op \in {"encode_integer", "encode_enumerated"}
     /\ ~IsSome(Constraints_value(call.constraints))
     /\ ~Constraints_extensible(call.constraints)) =>
        /\ result = Ok
        /\ self.output = Lit(LengthPrefixed(MinSigned(call.value)))

\* C6: with a Value constraint with one bound only, encode_integer emits a
\* length-prefixed minimal big-endian byte string: the unsigned form of
\* value - lower under a lower bound, the signed two's-complement form of the
\* value under an upper bound only.  (An extensible constraint puts its
\* extension bit first; the aligned variant pads after the length byte.)
C6_SemiConstrained ==
    (/\ pc = "done" /\ HasValue
     /\ IsSome(ValueRange.start) # IsSome(ValueRange.end)
     /\ (IsSome(ValueRange.start) => call.value >= Unwrap(ValueRange.start))) =>
        LET ext == IF Constraints_extensible(call.constraints) THEN 1 ELSE 0
            bytes == IF IsSome(ValueRange.start)
                     THEN MinUnsigned(call.value - Unwrap(ValueRange.start))
                     ELSE MinSigned(call.value)
            plain == call.constraints = <<Extensible("Value", ValueRange, FALSE)>>
        IN  /\ result = Ok
            /\ Len(self.output) >= ext
            /\ SubSeq(self.output, ext + 1, Len(self.output))
                 = Lit(NumBits(Len(bytes) \div 8, 8)
                         \o AlignBits(self.options.aligned, ext + 8) \o bytes)
            /\ (plain /\ ValueRange = start_from(-1) /\ call.value = 4096)
                 => self.output = from_slice(<<2, 16, 1>>)
            /\ (plain /\ ValueRange = start_from(1) /\ call.value = 127)
                 => self.output = from_slice(<<1, 126>>)
            /\ (plain /\ ValueRange = up_to(65535) /\ call.value = 128)
                 => self.output = from_slice(<<2, 0, 128>>)
            /\ (plain /\ ValueRange = up_to(65535) /\ call.value = -128)
                 => self.output = from_slice(<<1, 128>>)

C6_Witness ==
    /\ pc = "done" /\ IntegerCall /\ call.value = 4096
    /\ call.constraints = <<Extensible("Value", start_from(-1), FALSE)>>
    /\ self.output = from_slice(<<2, 16, 1>>)

\* C9: round trip: decode(encode(v)) = v for every constraint shape
\* (unconstrained, semi-constrained, fully bounded with small or large range,
\* extensible), in the aligned and the unaligned variant.
C9_RoundTrip ==
    (/\ pc = "done" /\ IntegerCall
     /\ ~IsSome(Constraints_size(call.constraints))
     /\ (HasValue => InRange(ValueRange, call.value))) =>
        /\ result = Ok
        /\ decode_integer(self.options.aligned, call.constraints, Raw(self.output))
             = Decoded(TRUE, call.value)


-----------------------------------------------------------------------------
(* SpecConstructed: Encoder::encode_sequence and Encoder::encode_set.  The  *)
(* encoder_scope closure is taken one field at a time: in declaration order *)
(* for a SEQUENCE, in any order for a SET.                                  *)

BOOLEAN_TAG == <<0, 1>>
SEQUENCE == <<0, 16>>
SET == <<0, 17>>
CONTEXT_0 == <<2, 0>>
CONTEXT_1 == <<2, 1>>

FieldTags == {BOOLEAN_TAG, INTEGER, CONTEXT_0}

TypeOf(tag) == IF tag = INTEGER THEN "INTEGER" ELSE "BOOLEAN"

ValuesOf(ty) == IF ty = "INTEGER" THEN {1, 2} ELSE BOOLEAN

RECURSIVE Perms(_)
Perms(S) ==
    IF S = {} THEN {<<>>}
    ELSE UNION {{<<x>> \o p : p \in Perms(S \ {x})} : x \in S}

TagLists == UNION {Perms(T) : T \in (SUBSET FieldTags) \ {{}}}

FieldLists ==
    UNION {{[i \in 1..Len(p) |->
                [tag |-> p[i], presence |-> pr[i], ty |-> TypeOf(p[i])]] :
            pr \in [1..Len(p) -> {"required", "optional"}]} : p \in TagLists}

\* the aggregate types encoded: every field list without extension marker, and
\* the extensible types over fewer fields than there are tags
ScopeTypes ==
    {[constraints |-> <<>>, fields |-> fs] : fs \in FieldLists}
        \cup {[constraints |-> <<ExtensibleMarker>>, fields |-> fs] :
                 fs \in {l \in FieldLists : Len(l) < Cardinality(FieldTags)}}

ScopeParents == {Encoder_new(EncoderOptions(a, FALSE, TRUE)) : a \in BOOLEAN}

InitConstructed ==
    /\ pc = "call"
    /\ self \in ScopeParents
    /\ \E op \in {"encode_sequence", "encode_set"}, t \in ScopeTypes :
          call = [op |-> op, tag |-> IF op = "encode_set" THEN SET ELSE SEQUENCE,
                  constraints |-> t.constraints, fields |-> t.fields]
    /\ encoder = NoEncoder
    /\ buffer = <<>>
    /\ length = 0
    /\ min = 0
    /\ result = Pending
    /\ supplied = <<>>

NewSequenceEncoder ==
    /\ pc = "call"
    /\ call.op = "encode_sequence"
    /\ encoder' = new_sequence_encoder(self, call.fields)
    /\ pc' = "scope"
    /\ UNCHANGED <<call, self, buffer, length, min, result, supplied>>

NewSetEncoder ==
    /\ pc = "call"
    /\ call.op = "encode_set"
    /\ encoder' = new_set_encoder(self, call.fields)
    /\ pc' = "scope"
    /\ UNCHANGED <<call, self, buffer, length, min, result, supplied>>

Visited == {supplied[i].tag : i \in 1..Len(supplied)}

Unvisited == {i \in 1..Len(call.fields) : call.fields[i].tag \notin Visited}

\* the fields the closure may encode next
NextFields ==
    IF call.op = "encode_set" THEN Unvisited
    ELSE {i \in Unvisited : \A j \in Unvisited : i <= j}

\* a field encoder has returned o inside the scope; `?` leaves encode_set /
\* encode_sequence with the error
FieldDone(o, entry) ==
    /\ encoder' = o.encoder
    /\ supplied' = Append(supplied, entry)
    /\ IF o.res = Ok
       THEN pc' = "scope" /\ result' = result
       ELSE pc' = "done" /\ result' = o.res
    /\ UNCHANGED <<call, self, buffer, length, min>>

Entry(f, present, value) ==
    [tag |-> f.tag, presence |-> f.presence, ty |-> f.ty,
     present |-> present, value |-> value]

EncodeRequired ==
    /\ pc = "scope"
    /\ \E i \in NextFields :
          LET f == call.fields[i] IN
          /\ f.presence = "required"
          /\ \E v \in ValuesOf(f.ty) :
                FieldDone(Value_encode_with_tag(encoder, f.tag, f.ty, v),
                          Entry(f, TRUE, v))

EncodeSome ==
    /\ pc = "scope"
    /\ \E i \in NextFields :
          LET f == call.fields[i] IN
          /\ f.presence = "optional"
          /\ \E v \in ValuesOf(f.ty) :
                FieldDone(encode_some_with_tag(encoder, f.tag, f.ty, v),
                          Entry(f, TRUE, v))

EncodeNone ==
    /\ pc = "scope"
    /\ \E i \in NextFields :
          LET f == call.fields[i] IN
          /\ f.presence = "optional"
          /\ FieldDone(encode_none_with_tag(encoder, f.tag), Entry(f, FALSE, 0))

MaxExtensions == 2   \* extension additions recorded in one scope

\* the values of an extension addition of type BOOLEAN or OPTIONAL BOOLEAN
AdditionValues ==
    {[presence |-> "required", ty |-> "BOOLEAN", present |-> TRUE, value |-> b] : b \in BOOLEAN}
        \cup {[presence |-> "optional", ty |-> "BOOLEAN", present |-> p, value |-> b] :
                 p \in BOOLEAN, b \in BOOLEAN}

\* the extension additions follow the root fields of an extensible type
MayExtend ==
    /\ pc = "scope"
    /\ Unvisited = {}
    /\ Constraints_extensible(call.constraints)
    /\ Len(encoder.extension_fields) < MaxExtensions

\* an encoder call inside the scope has returned o
ScopeDone(o) ==
    /\ encoder' = o.encoder
    /\ IF o.res = Ok
       THEN pc' = "scope" /\ result' = result
       ELSE pc' = "done" /\ result' = o.res
    /\ UNCHANGED <<call, self, buffer, length, min, supplied>>

EncodeExtensionAddition ==
    /\ MayExtend
    /\ \E v \in AdditionValues : ScopeDone(encode_extension_addition(encoder, CONTEXT_1, v))

EncodeExtensionAdditionGroup ==
    /\ MayExtend
    /\ \E v \in AdditionValues :
          ScopeDone(encode_extension_addition_group(
                        encoder, SEQUENCE,
                        <<[tag |-> CONTEXT_1, presence |-> v.presence, ty |-> v.ty]>>, <<v>>))

EncodeConstructed ==
    /\ pc = "scope"
    /\ Unvisited = {}
    /\ Return(encode_constructed(self, call.tag, call.constraints, encoder))
    /\ UNCHANGED <<call, encoder, buffer, length, min, supplied>>

NextConstructed ==
    \/ NewSequenceEncoder
    \/ NewSetEncoder
    \/ EncodeRequired
    \/ EncodeSome
    \/ EncodeNone
    \/ EncodeExtensionAddition
    \/ EncodeExtensionAdditionGroup
    \/ EncodeConstructed

SpecConstructed == InitConstructed /\ [][NextConstructed]_vars

-----------------------------------------------------------------------------
(* SpecChoice: Encoder::encode_choice.  encode_fn encodes the chosen        *)
(* alternative into the child encoder and returns its tag.                  *)

ChoiceTags == FieldTags \cup {CONTEXT_1}

\* E::VARIANTS and E::EXTENDED_VARIANTS: the root alternatives and the
\* alternatives added after the extension marker
VariantLists ==
    {vs \in [root : UNION {Perms(T) : T \in (SUBSET ChoiceTags) \ {{}}},
             extended : UNION {Perms(T) : T \in SUBSET ChoiceTags}] :
        /\ \A i \in 1..Len(vs.root), j \in 1..Len(vs.extended) : vs.root[i] # vs.extended[j]
        /\ Len(vs.root) + Len(vs.extended) <= 3}

InitChoice ==
    /\ pc = "call"
    /\ self \in ScopeParents
    /\ \E vs \in VariantLists, c \in {<<>>, <<ExtensibleMarker>>}, t \in ChoiceTags :
          \E v \in ValuesOf(TypeOf(t)) :
             call = [op |-> "encode_choice", constraints |-> c,
                     VARIANTS |-> vs.root, EXTENDED_VARIANTS |-> vs.extended,
                     tag |-> t, ty |-> TypeOf(t), value |-> v]
    /\ encoder = NoEncoder
    /\ buffer = <<>>
    /\ length = 0
    /\ min = 0
    /\ result = Pending
    /\ supplied = <<>>

EncodeChoice ==
    /\ pc = "call"
    /\ call.op = "encode_choice"
    /\ LET fresh == Encoder_new(without_set_encoding(self.options))
           alt == Value_encode_with_tag(fresh, call.tag, call.ty, call.value)
       IN  /\ encoder' = alt.encoder
           /\ IF alt.res # Ok
              THEN Return(Outcome(self, alt.res))
              ELSE Return(encode_choice(self, call.constraints, call.VARIANTS,
                                        call.EXTENDED_VARIANTS, alt.encoder, call.tag))
    /\ UNCHANGED <<call, buffer, length, min, supplied>>

NextChoice == EncodeChoice

SpecChoice == InitChoice /\ [][NextChoice]_vars


-----------------------------------------------------------------------------
(* Properties of the constructed-type and CHOICE codecs *)

\* the order of tags: by class, then by number
TagBefore(a, b) == a[1] < b[1] \/ (a[1] = b[1] /\ a[2] < b[2])

\* the supplied fields (their tags are distinct) in ascending tag order
RECURSIVE AscendingByTag(_)
AscendingByTag(entries) ==
    IF entries = <<>> THEN <<>>
    ELSE LET first == CHOOSE i \in 1..Len(entries) :
                          \A j \in 1..Len(entries) : ~TagBefore(entries[j].tag, entries[i].tag)
         IN  <<entries[first]>>
                 \o AscendingByTag(SubSeq(entries, 1, first - 1)
                                       \o SubSeq(entries, first + 1, Len(entries)))

\* the bits a BOOLEAN, or an INTEGER constrained to 0..3, encodes to
ValueBits(ty, v) == IF ty = "BOOLEAN" THEN <<IF v THEN 1 ELSE 0>> ELSE NumBits(v, 2)

RECURSIVE PresenceFlags(_)
PresenceFlags(entries) ==
    IF entries = <<>> THEN <<>>
    ELSE (IF Head(entries).presence = "required" THEN <<>>
          ELSE <<IF Head(entries).present THEN 1 ELSE 0>>)
             \o PresenceFlags(Tail(entries))

RECURSIVE FieldContents(_)
FieldContents(entries) ==
    IF entries = <<>> THEN <<>>
    ELSE (IF Head(entries).present
          THEN ValueBits(Head(entries).ty, Head(entries).value) ELSE <<>>)
             \o FieldContents(Tail(entries))

ExtensionBit == IF Constraints_extensible(call.constraints) THEN <<0>> ELSE <<>>

\* the extensibility bit of an aggregate: 1 iff an extension block was recorded
ScopeExtensionBit ==
    IF Constraints_extensible(call.constraints)
    THEN <<IF encoder.extension_fields # <<>> THEN 1 ELSE 0>>
    ELSE <<>>

\* the encoding of a SET as a function of the fields supplied to it, whatever
\* their order in `fields`
CanonicalSet(fields) ==
    LET entries == AscendingByTag(fields)
        head == ScopeExtensionBit \o PresenceFlags(entries)
        contents == FieldContents(entries)
        fill == IF Len(contents) < 8 THEN Zeros(8 - Len(contents)) ELSE <<>>
    IN  Lit(head \o AlignBits(self.options.aligned, Len(head)) \o contents \o fill)

\* C7: the finished encoding of a SET scope is determined by the set of
\* (tag, value) fields supplied, whatever the order of the field encoder
\* calls: presence flags and contents are laid out in ascending tag order.
C7_SetOrderIndependent ==
    (pc = "done" /\ call.op = "encode_set" /\ result = Ok)
        => self.output = CanonicalSet(supplied)

\* three fields written in the order [2 0], INTEGER, BOOLEAN
C7_Witness ==
    /\ pc = "done" /\ call.op = "encode_set" /\ result = Ok
    /\ ~self.options.aligned /\ call.constraints = <<>>
    /\ Len(supplied) = 3
    /\ supplied[1].tag = CONTEXT_0 /\ supplied[1].presence = "optional"
    /\ supplied[1].present /\ supplied[1].value = TRUE
    /\ supplied[2].tag = INTEGER /\ supplied[2].presence = "required"
    /\ supplied[2].value = 2
    /\ supplied[3].tag = BOOLEAN_TAG /\ supplied[3].presence = "required"
    /\ supplied[3].value = FALSE
    /\ self.output = Lit(<<1, 0, 1, 0, 1, 0, 0, 0, 0>>)

\* C8: a CHOICE with a single root alternative, that alternative chosen:
\* no index bits are emitted and exactly the bits the alternative's own
\* encoder produced are appended (after the extension bit of an extensible
\* CHOICE).
C8_SingleRootChoice ==
    (/\ pc = "done" /\ call.op = "encode_choice"
     /\ Len(call.VARIANTS) = 1 /\ call.tag = call.VARIANTS[1])
        => /\ result = Ok
           /\ self.output = Lit(ExtensionBit) \o encoder.output


-----------------------------------------------------------------------------
(* Further properties of the length codec (SpecLength) *)

SizeRange == Unwrap(call.constraints).constraint

\* C11: in the unaligned variant, under a Size constraint with both bounds and
\* 1 < range < 65536 (range = end - start + 1), encode_length appends the
\* offset length - start in exactly ceil(log2(range)) bits, with no padding
\* and no length byte, and then the content for [0, length).
C11_ConstrainedLength ==
    (/\ pc = "done" /\ call.op = "encode_length"
     /\ ~self.options.aligned
     /\ IsSome(call.constraints) /\ ~Unwrap(call.constraints).extensible
     /\ IsSome(SizeRange.start) /\ IsSome(SizeRange.end)
     /\ Unwrap(SizeRange.end) - Unwrap(SizeRange.start) + 1 > 1
     /\ Unwrap(SizeRange.end) - Unwrap(SizeRange.start) + 1 < 65536
     /\ InRange(SizeRange, call.length)) =>
        /\ result = Ok
        /\ Appended =
              Lit(NumBits(call.length - Unwrap(SizeRange.start),
                          CeilLog2(Unwrap(SizeRange.end) - Unwrap(SizeRange.start) + 1)))
                  \o encode_fn(call.fn, 0, call.length)


-----------------------------------------------------------------------------
(* SpecRange: Range::range applied to the ranges Range::new, start_from,     *)
(* up_to and Range::default build.                                           *)

RangeBounds == ((-MaxInt)..MaxInt) \cup ValueBounds

InitRange ==
    /\ pc = "call"
    /\ self = NoEncoder
    /\ \E r \in Ranges(RangeBounds) : call = [op |-> "range", range |-> r]
    /\ encoder = NoEncoder
    /\ buffer = <<>>
    /\ length = 0
    /\ min = 0
    /\ result = None
    /\ supplied = <<>>

RangeRange ==
    /\ pc = "call"
    /\ call.op = "range"
    /\ result' = Range_range(call.range)
    /\ pc' = "done"
    /\ UNCHANGED <<call, self, encoder, buffer, length, min, supplied>>

NextRange == RangeRange

SpecRange == InitRange /\ [][NextRange]_vars

\* C12: Range::range returns, for a range with both bounds (start <= end), the
\* number of values it spans, end - start + 1, and None when a bound is absent.
C12_RangeSpan ==
    (pc = "done" /\ call.op = "range") =>
        result = IF IsSome(call.range.start) /\ IsSome(call.range.end)
                 THEN Some(Unwrap(call.range.end) - Unwrap(call.range.start) + 1)
                 ELSE None


-----------------------------------------------------------------------------
(* src/per/enc.rs: known-multiplier character strings.  A                   *)
(* ConstrainedCharacterString<WIDTH> is [width, chars]: its characters as   *)
(* numbers, each held in `width` bits.                                      *)

Constraints_permitted_alphabet(cs) == find_kind(cs, "PermittedAlphabet")

next_power_of_two(n) == CHOOSE p \in {2 ^ k : k \in 0..8} :
                            p >= n /\ \A q \in {2 ^ k : k \in 0..8} : q >= n => p <= q

\* ConstrainedCharacterString::to_octet_aligned: every character in 8 bits
to_octet_aligned(value) == [width |-> 8, chars |-> value.chars]

IndexOf(alphabet, ch) == CHOOSE i \in 1..Len(alphabet) : alphabet[i] = ch

\* DynConstrainedCharacterString::from_known_multiplier_string: every character
\* replaced by its index in the alphabet, in log2(alphabet.len()) bits; none
\* when a character is not in the alphabet
from_known_multiplier_string(value, alphabet) ==
    IF \A i \in 1..Len(value.chars) : \E j \in 1..Len(alphabet) : alphabet[j] = value.chars[i]
    THEN Some([width |-> log2(Len(alphabet)),
               chars |-> [i \in 1..Len(value.chars) |-> IndexOf(alphabet, value.chars[i]) - 1]])
    ELSE None

\* mutant: the characters are written in their natural width in both variants
encode_known_multipler_string_natural_width(enc, tag, constraints, value) ==
    LET f == encode_length(enc.options, <<>>, Len(value.chars), Constraints_size(constraints),
                           CharsFn(value.width, value.chars))
    IN  IF f.res # Ok THEN Outcome(enc, f.res)
        ELSE Outcome(extend(enc, tag, f.buffer), Ok)

encode_known_multipler_string(enc, tag, constraints, value) ==
    LET alphabet == Constraints_permitted_alphabet(constraints)
        alphabet_width == log2(Len(Unwrap(alphabet).constraint))
        remap == value.width > (IF enc.options.aligned
                                THEN next_power_of_two(alphabet_width)
                                ELSE alphabet_width)
        characters == from_known_multiplier_string(value, Unwrap(alphabet).constraint)
        written == IF IsSome(alphabet)
                   THEN IF remap THEN Unwrap(characters) ELSE value
                   ELSE IF enc.options.aligned THEN to_octet_aligned(value) ELSE value
        f == encode_length(enc.options, <<>>, Len(value.chars), Constraints_size(constraints),
                           CharsFn(written.width, written.chars))
    IN  IF IsSome(alphabet) /\ remap /\ ~IsSome(characters) THEN Outcome(enc, Custom)
        ELSE IF f.res # Ok THEN Outcome(enc, f.res)
        ELSE Outcome(extend(enc, tag, f.buffer), Ok)

-----------------------------------------------------------------------------
(* SpecString: Encoder::encode_visible_string and its siblings, which all   *)
(* call encode_known_multipler_string.                                      *)

MaxChars == 2      \* strings of 0 .. MaxChars characters, and "John"

VISIBLE_STRING == <<0, 26>>
VISIBLE_WIDTH == 7
NUMERIC_WIDTH == 4

John == <<74, 111, 104, 110>>

RECURSIVE SeqsUpTo(_, _)
SeqsUpTo(S, n) ==
    IF n = 0 THEN {<<>>}
    ELSE SeqsUpTo(S, n - 1) \cup {Append(q, x) : q \in SeqsUpTo(S, n - 1), x \in S}

StringValues ==
    {[width |-> VISIBLE_WIDTH, chars |-> c] : c \in SeqsUpTo({74, 111, 104, 110}, MaxChars) \cup {John}}
        \cup {[width |-> NUMERIC_WIDTH, chars |-> c] : c \in SeqsUpTo({0, 9, 10}, MaxChars)}

Alphabets == {<<74, 111>>, <<74, 111, 104, 110>>, <<0, 9, 10>>}

StringConstraints ==
    {<<>>} \cup {<<c>> : c \in IntegerSizeConstraints}
           \cup {<<Extensible("PermittedAlphabet", a, FALSE)>> : a \in Alphabets}

InitString ==
    /\ pc = "call"
    /\ self \in ScopeParents
    /\ \E c \in StringConstraints, v \in StringValues :
          call = [op |-> "encode_known_multipler_string", tag |-> VISIBLE_STRING,
                  constraints |-> c, value |-> v]
    /\ encoder = NoEncoder
    /\ buffer = <<>>
    /\ length = 0
    /\ min = 0
    /\ result = Pending
    /\ supplied = <<>>

EncodeKnownMultiplerString ==
    /\ pc = "call"
    /\ call.op = "encode_known_multipler_string"
    /\ Return(encode_known_multipler_string(self, call.tag, call.constraints, call.value))
    /\ UNCHANGED <<call, encoder, buffer, length, min, supplied>>

NextString == EncodeKnownMultiplerString

SpecString == InitString /\ [][NextString]_vars

\* the characters of a string, each in its low `width` bits
RECURSIVE CharBits(_, _)
CharBits(chars, width) ==
    IF chars = <<>> THEN <<>>
    ELSE NumBits(Head(chars) % (2 ^ width), width) \o CharBits(Tail(chars), width)

\* C13: a known-multiplier string of n <= 127 characters of natural width W,
\* with no PermittedAlphabet and no Size constraint, is encoded as the one-byte
\* length n followed by n * W bits (every character in W bits) in the unaligned
\* variant and by n octets (every character in 8 bits) in the aligned variant.
C13_KnownMultiplierString ==
    (/\ pc = "done" /\ call.op = "encode_known_multipler_string"
     /\ call.constraints = <<>>
     /\ Len(call.value.chars) <= 127) =>
        /\ result = Ok
        /\ self.output =
              Lit(NumBits(Len(call.value.chars), 8)
                    \o CharBits(call.value.chars,
                                IF self.options.aligned THEN 8 ELSE call.value.width))
        /\ (call.value = [width |-> VISIBLE_WIDTH, chars |-> John] =>
               Encoder_output(self) = IF self.options.aligned
                                      THEN <<4, 74, 111, 104, 110>>
                                      ELSE <<4, 149, 191, 70, 224>>)

C13_Witness ==
    /\ pc = "done" /\ call.op = "encode_known_multipler_string"
    /\ call.constraints = <<>> /\ ~self.options.aligned
    /\ call.value = [width |-> VISIBLE_WIDTH, chars |-> John]
    /\ Encoder_output(self) = <<4, 149, 191, 70, 224>>


-----------------------------------------------------------------------------
(* Further properties of the constructed-type codec (SpecConstructed) *)

ConstructedCall == call.op \in {"encode_sequence", "encode_set"}

IsSuffix(p, q) == Len(p) <= Len(q) /\ SubSeq(q, Len(q) - Len(p) + 1, Len(q)) = p

\* the normally-small-integer form of n < 64: a 0 bit, then n in 6 bits
NormallySmall(n) == <<0>> \o NumBits(n, 6)

RECURSIVE BlockBitmap(_)
BlockBitmap(blocks) ==
    IF blocks = <<>> THEN <<>>
    ELSE <<IF Head(blocks) = <<>> THEN 0 ELSE 1>> \o BlockBitmap(Tail(blocks))

\* every non-empty block as a length-prefixed octet string
RECURSIVE BlockStrings(_)
BlockStrings(blocks) ==
    IF blocks = <<>> THEN <<>>
    ELSE (IF Head(blocks) = <<>> THEN <<>>
          ELSE NumBits(Len(Head(blocks)), 8) \o Raw(from_slice(Head(blocks))))
             \o BlockStrings(Tail(blocks))

ExtensionAdditions(blocks) ==
    NormallySmall(Len(blocks)) \o BlockBitmap(blocks) \o BlockStrings(blocks)

\* C14: when a SEQUENCE/SET scope finishes with at least one recorded
\* extension-addition block, the parent's output holds, after the aggregate's
\* extension bit, presence flags and body: the block count in normally-small-
\* integer form, one bitmap bit per block (1 iff non-empty), and every
\* non-empty block as a length-prefixed octet string (unaligned variant).
C14_ExtensionAdditions ==
    (/\ pc = "done" /\ ConstructedCall /\ result = Ok
     /\ ~self.options.aligned
     /\ encoder.extension_fields # <<>>) =>
        LET additions == Lit(ExtensionAdditions(encoder.extension_fields))
            entries == AscendingByTag(supplied)
        IN  /\ IsSuffix(additions, self.output)
            /\ Len(self.output) >= 1 + Len(PresenceFlags(entries))
                                     + Len(FieldContents(entries)) + Len(additions)


-----------------------------------------------------------------------------
(* Further properties of the CHOICE codec (SpecChoice) *)

\* the zero-based position of the chosen alternative among the root alternatives
RootIndex == (CHOOSE i \in 1..Len(call.VARIANTS) : call.VARIANTS[i] = call.tag) - 1

\* C15: for a CHOICE whose chosen alternative is one of N > 1 root
\* alternatives, encode_choice emits the alternative's index constrained to
\* [0, N-1], in exactly ceil(log2(N)) bits, followed directly by the
\* alternative's encoded bits (after the extension bit of an extensible CHOICE).
C15_RootChoiceIndex ==
    (/\ pc = "done" /\ call.op = "encode_choice"
     /\ Len(call.VARIANTS) > 1
     /\ \E i \in 1..Len(call.VARIANTS) : call.VARIANTS[i] = call.tag)
        => /\ result = Ok
           /\ self.output =
                 Lit(ExtensionBit \o NumBits(RootIndex, CeilLog2(Len(call.VARIANTS))))
                     \o encoder.output


-----------------------------------------------------------------------------
(* Presence flags and layout of a finished scope (SpecConstructed) *)

\* C16: the presence flags of the OPTIONAL/DEFAULT fields of a SEQUENCE are
\* emitted in declaration order, one bit per such field, whatever the order of
\* the fields' tags; those of a SET are emitted in ascending tag order.
C16_PresenceFlagOrder ==
    (pc = "done" /\ ConstructedCall /\ result = Ok) =>
        LET entries == IF call.op = "encode_sequence" THEN supplied
                       ELSE AscendingByTag(supplied)
            flags == PresenceFlags(entries)
            e == Len(ScopeExtensionBit)
        IN  /\ Len(self.output) >= e + Len(flags)
            /\ SubSeq(self.output, e + 1, e + Len(flags)) = Lit(flags)


-----------------------------------------------------------------------------
(* src/per/enc.rs: encode_bit_string *)

\* value is the bit string, a sequence of 0 and 1
encode_bit_string(enc, tag, constraints, value) ==
    IF Constraints_extensible(constraints)
    THEN Outcome(enc, Panic)  \* the extensible condition is todo!()
    ELSE
    LET size == Constraints_size(constraints)
        bits == [kind |-> "bits", w |-> 1, bytes |-> Lit(value)]
        effective == effective_value(Unwrap(size).constraint, Len(value)).v
        f == IF ~IsSome(size)
             THEN encode_length(enc.options, <<>>, Len(value), None, bits)
             ELSE IF effective < 0 /\ enc.options.debug_assertions
             THEN Returned(<<>>, Panic)  \* debug_assert!(value >= start)
             ELSE IF effective = 0
             THEN Returned(<<>>, Ok)
             ELSE encode_length(enc.options, <<>>, Len(value), size, bits)
    IN  IF f.res # Ok THEN Outcome(enc, f.res)
        ELSE Outcome(extend(enc, tag, f.buffer), Ok)

-----------------------------------------------------------------------------
(* SpecPrimitive: encode_integer, encode_octet_string and encode_bit_string *)
(* on a top-level Encoder.                                                  *)

MaxOctets == 2     \* octet and bit strings of 0 .. MaxOctets units

OCTET_STRING == <<0, 4>>
BIT_STRING == <<0, 3>>

StringSizeConstraints ==
    {<<>>, <<ExtensibleMarker>>}
        \cup {<<c>> : c \in {x \in SizeConstraints :
                                \A b \in {x.constraint.start, x.constraint.end} :
                                    IsSome(b) => Unwrap(b) <= 64}}

InitPrimitive ==
    /\ pc = "call"
    /\ self \in TopLevelEncoders
    /\ \/ \E c \in IntegerConstraints, v \in IntValues :
             call = [op |-> "encode_integer", tag |-> INTEGER, constraints |-> c,
                     variance |-> 0, value |-> v]
       \/ \E c \in StringSizeConstraints, v \in SeqsUpTo({0, 255}, MaxOctets) :
             call = [op |-> "encode_octet_string", tag |-> OCTET_STRING,
                     constraints |-> c, variance |-> 0, value |-> v]
       \/ \E c \in StringSizeConstraints, v \in SeqsUpTo({0, 1}, MaxOctets) :
             call = [op |-> "encode_bit_string", tag |-> BIT_STRING,
                     constraints |-> c, variance |-> 0, value |-> v]
    /\ buffer = <<>>
    /\ length = 0
    /\ min = 0
    /\ result = Pending
    /\ encoder = NoEncoder
    /\ supplied = <<>>

EncodeOctetString ==
    /\ pc = "call"
    /\ call.op = "encode_octet_string"
    /\ Return(encode_octet_string(self, call.tag, call.constraints, call.value))
    /\ UNCHANGED <<call, encoder, buffer, length, min, supplied>>

EncodeBitString ==
    /\ pc = "call"
    /\ call.op = "encode_bit_string"
    /\ Return(encode_bit_string(self, call.tag, call.constraints, call.value))
    /\ UNCHANGED <<call, encoder, buffer, length, min, supplied>>

NextPrimitive == EncodeInteger \/ EncodeOctetString \/ EncodeBitString

SpecPrimitive == InitPrimitive /\ [][NextPrimitive]_vars

\* C17: a failure of encode_integer, encode_octet_string or encode_bit_string
\* caused by the value or its constraints is returned as an Error value: none
\* of these calls aborts fatally.
C17_NoFatalAbort ==
    (pc = "done" /\ call.op \in {"encode_integer", "encode_octet_string", "encode_bit_string"})
        => result # Panic


-----------------------------------------------------------------------------
(* Fatal aborts and flags inside a scope (SpecConstructed) *)

\* C18: on a scope created for a SEQUENCE or SET, also one whose type has no
\* OPTIONAL/DEFAULT field, the field-presence operations (set_bit through
\* encode_some / encode_none, encode_extension_addition,
\* encode_extension_addition_group) return normally: none aborts fatally.
C18_PresenceOpsReturn ==
    ConstructedCall => result # Panic


-----------------------------------------------------------------------------
(* The extension bit of an integer (SpecInteger) *)

\* the call's Value constraint with its extensibility marker set
MadeExtensible == [Unwrap(Constraints_value(call.constraints)) EXCEPT !.extensible = TRUE]

\* C19: under a Value constraint alone, encode_integer emits a leading
\* extension bit exactly when the constraint is extensible; the bit is 0 when
\* the value is inside the root bound and 1 when it is outside.  When the
\* constraint is not extensible no such bit is emitted: the unaligned encoding
\* is the extensible one without its leading 0.
C19_IntegerExtensionBit ==
    (/\ pc = "done" /\ HasValue /\ Len(call.constraints) = 1) =>
        IF Unwrap(Constraints_value(call.constraints)).extensible
        THEN /\ result = Ok
             /\ Len(self.output) >= 1
             /\ self.output[1] = Bit(IF InRange(ValueRange, call.value) THEN 0 ELSE 1)
        ELSE (InRange(ValueRange, call.value) /\ ~self.options.aligned) =>
                 /\ result = Ok
                 /\ encode_integer(Encoder_new(self.options), call.tag,
                                   <<MadeExtensible>>, call.value).encoder.output
                        = <<Bit(0)>> \o self.output


-----------------------------------------------------------------------------
(* What a SEQUENCE scope hands to its parent (SpecConstructed) *)

\* C20: in the unaligned variant a finished SEQUENCE scope contributes the
\* extensibility bit, the presence flags and then the bits its field encoders
\* wrote, and nothing else: its bit length is the sum of the three parts for
\* every body length, bodies shorter than 8 bits included.
C20_SequenceBodyUnpadded ==
    (/\ pc = "done" /\ call.op = "encode_sequence"
     /\ ~self.options.aligned /\ result = Ok) =>
        LET head == Len(ScopeExtensionBit) + Len(PresenceFlags(supplied))
            contents == FieldContents(supplied)
        IN  /\ BitLen(self.output) = head + Len(contents)
            /\ SubSeq(self.output, head + 1, head + Len(contents)) = Lit(contents)


-----------------------------------------------------------------------------
(* Fixed and extended sizes (SpecLength) *)

\* C21: under a non-extensible Size constraint with start = end = n and the
\* length n, encode_length appends no length field and exactly the content
\* for [0, n), for every n >= 0.
C21_FixedSize ==
    (/\ pc = "done" /\ call.op = "encode_length"
     /\ IsSome(call.constraints) /\ ~Unwrap(call.constraints).extensible
     /\ SizeRange.start = Some(call.length)
     /\ SizeRange.end = Some(call.length)) =>
        /\ result = Ok
        /\ Appended = encode_fn(call.fn, 0, call.length)


\* C22: under an extensible Size constraint with both bounds and a length
\* outside the root range, encode_length returns normally and appends what it
\* appends for the same length without a constraint (the unconstrained length
\* form), not an offset from the root lower bound.
C22_ExtendedSize ==
    (/\ pc = "done" /\ call.op = "encode_length"
     /\ IsSome(call.constraints) /\ Unwrap(call.constraints).extensible
     /\ IsSome(SizeRange.start) /\ IsSome(SizeRange.end)
     /\ ~InRange(SizeRange, call.length)) =>
        /\ result = Ok
        /\ buffer = encode_length(self.options, call.buffer, call.length, None, call.fn).buffer


-----------------------------------------------------------------------------
(* SpecAggregate: encode_sequence, encode_set and encode_sequence_of called  *)
(* on a parent scope that already holds output, with fields and elements     *)
(* whose encoders may fail.                                                  *)

\* Encoder::encode_set, its closure run to the end over the fields as declared
encode_set(enc, tag, constraints, FIELDS, values) ==
    LET finish(scope) ==
            IF scope.res # Ok THEN Outcome(enc, scope.res)
            ELSE encode_constructed(enc, tag, constraints, scope.encoder)
    IN  finish(encode_fields(Outcome(new_set_encoder(enc, FIELDS), Ok), FIELDS, values))

\* E::TAG of the element type
TagOf(ty) ==
    IF ty = "BOOLEAN" THEN BOOLEAN_TAG
    ELSE IF ty = "OCTET STRING" THEN OCTET_STRING
    ELSE INTEGER

\* Encoder::encode_sequence_of over elements of type ty; an element encoder
\* that fails ends the call with its error
encode_sequence_of(enc, tag, ty, values, constraints) ==
    LET element(i) == Value_encode_with_tag(Encoder_new(enc.options), TagOf(ty), ty, values[i])
        encoded(o) == [res |-> o.res, bits |-> bitstring_output(o.encoder)]
        elements == [i \in 1..Len(values) |-> encoded(element(i))]
        failed(buf) == {j \in 1..Len(buf) : buf[j].k = "error"}
        first(buf) == buf[CHOOSE j \in failed(buf) : \A l \in failed(buf) : j <= l].v
        return(f) ==
            IF failed(f.buffer) # {} THEN Outcome(enc, elements[first(f.buffer)].res)
            ELSE IF f.res # Ok THEN Outcome(enc, f.res)
            ELSE Outcome(extend(enc, tag, f.buffer), Ok)
    IN  return(encode_length(enc.options, <<>>, Len(values), Constraints_size(constraints),
                             ElementsFn(elements)))

MaxElements == 2   \* elements of a SEQUENCE OF

SEQUENCE_OF_SIZE == Extensible_new("Size", Bounded_new(0, 1))

\* octet strings of 1 .. MaxOctets + 1 octets: all but the first exceed SIZE(0..1)
OctetValues == {[i \in 1..n |-> 7] : n \in 1..(MaxOctets + 1)}

ElementValues(ty) == IF ty = "BOOLEAN" THEN BOOLEAN ELSE OctetValues

\* a field with its value: the descriptor of C::FIELDS and what the closure encodes
FieldValues(tag, ty) ==
    {[tag |-> tag, presence |-> "required", ty |-> ty, present |-> TRUE, value |-> v] :
        v \in ElementValues(ty)}
      \cup {[tag |-> tag, presence |-> "optional", ty |-> ty, present |-> TRUE, value |-> v] :
              v \in ElementValues(ty)}
      \cup {[tag |-> tag, presence |-> "optional", ty |-> ty, present |-> FALSE,
             value |-> CHOOSE v \in ElementValues(ty) : TRUE]}

\* the field lists of the aggregate types: one BOOLEAN field x, one OCTET STRING
\* field y, or both in either order
AggregateFields(x, y, k) ==
    IF k = 1 THEN <<x>>
    ELSE IF k = 2 THEN <<y>>
    ELSE IF k = 3 THEN <<x, y>>
    ELSE <<y, x>>

\* parents: a fresh encoder, and a scope that already holds output, a presence
\* flag and an extension block
AggregateParents ==
    {Encoder_new(EncoderOptions(a, FALSE, TRUE)) : a \in BOOLEAN}
      \cup {[Encoder_new(EncoderOptions(a, FALSE, TRUE))
               EXCEPT !.output = Lit(<<1>>),
                      !.field_bitfield = <<<<CONTEXT_0, TRUE>>>>,
                      !.extension_fields = <<<<0>>>>] : a \in BOOLEAN}

InitAggregate ==
    /\ pc = "call"
    /\ self \in AggregateParents
    /\ \/ \E op \in {"encode_sequence", "encode_set"},
             x \in FieldValues(BOOLEAN_TAG, "BOOLEAN"),
             y \in FieldValues(OCTET_STRING, "OCTET STRING"), k \in 1..4 :
             call = [op |-> op, tag |-> IF op = "encode_set" THEN SET ELSE SEQUENCE,
                     constraints |-> <<>>, fields |-> AggregateFields(x, y, k)]
       \/ \E ty \in {"BOOLEAN", "OCTET STRING"}, c \in {<<>>, <<SEQUENCE_OF_SIZE>>} :
             \E vs \in SeqsUpTo(ElementValues(ty), MaxElements) :
                call = [op |-> "encode_sequence_of", tag |-> SEQUENCE, ty |-> ty,
                        values |-> vs, constraints |-> c]
    /\ encoder = NoEncoder
    /\ buffer = <<>>
    /\ length = 0
    /\ min = 0
    /\ result = Pending
    /\ supplied = <<>>

EncodeSequence ==
    /\ pc = "call"
    /\ call.op = "encode_sequence"
    /\ Return(encode_sequence(self, call.tag, call.constraints, call.fields, call.fields))
    /\ UNCHANGED <<call, encoder, buffer, length, min, supplied>>

EncodeSet ==
    /\ pc = "call"
    /\ call.op = "encode_set"
    /\ Return(encode_set(self, call.tag, call.constraints, call.fields, call.fields))
    /\ UNCHANGED <<call, encoder, buffer, length, min, supplied>>

EncodeSequenceOf ==
    /\ pc = "call"
    /\ call.op = "encode_sequence_of"
    /\ Return(encode_sequence_of(self, call.tag, call.ty, call.values, call.constraints))
    /\ UNCHANGED <<call, encoder, buffer, length, min, supplied>>

NextAggregate == EncodeSequence \/ EncodeSet \/ EncodeSequenceOf

SpecAggregate == InitAggregate /\ [][NextAggregate]_vars

\* the Result of encoding the values in order, up to the first failure
RECURSIVE FirstFailure(_, _)
FirstFailure(tys, values) ==
    IF values = <<>> THEN Ok
    ELSE IF Head(tys) = "OCTET STRING" /\ Len(Head(values)) > 1
    THEN InvalidLength(Len(Head(values)), Bounded_new(0, 1))
    ELSE FirstFailure(Tail(tys), Tail(values))

\* the values the call's field or element encoders are run on, with their types
Encoded ==
    IF call.op = "encode_sequence_of"
    THEN [i \in 1..Len(call.values) |-> [ty |-> call.ty, value |-> call.values[i]]]
    ELSE SelectSeq(call.fields, LAMBDA f : f.present)

CallFailure ==
    FirstFailure([i \in 1..Len(Encoded) |-> Encoded[i].ty],
                 [i \in 1..Len(Encoded) |-> Encoded[i].value])

\* the element encoders of encode_sequence_of run once the number of elements
\* has passed the Size check
ElementsRun ==
    \/ call.op # "encode_sequence_of"
    \/ call.constraints = <<>>
    \/ InRange(SEQUENCE_OF_SIZE.constraint, Len(call.values))

\* C23: when a field encoder fails inside encode_sequence or encode_set, or an
\* element encoder inside encode_sequence_of, the call returns that error and
\* the parent's output, presence flags and extension blocks are what they were
\* before the call.
C23_FailureLeavesParent ==
    [][(pc' = "done" /\ ElementsRun /\ CallFailure # Ok) =>
          /\ result' = CallFailure
          /\ self'.output = self.output
          /\ self'.set_output = self.set_output
          /\ self'.field_bitfield = self.field_bitfield
          /\ self'.extension_fields = self.extension_fields]_vars

\* an optional OCTET STRING field of two octets fails in a SEQUENCE whose parent
\* already holds output
C23_Witness ==
    /\ pc = "done" /\ call.op = "encode_sequence"
    /\ result = InvalidLength(2, Bounded_new(0, 1))
    /\ self.output = Lit(<<1>>)
    /\ self.extension_fields = <<<<0>>>>


-----------------------------------------------------------------------------
(* SpecScope: one encoding scope, plain or SET, receiving a sequence of       *)
(* encode operations.                                                        *)

MaxOps == 3        \* encode operations applied to one scope

ScopeTags == {BOOLEAN_TAG, INTEGER}

InitScope ==
    /\ pc = "scope"
    /\ self \in {Encoder_new(EncoderOptions(a, s, TRUE)) : a \in BOOLEAN, s \in BOOLEAN}
    /\ call = [op |-> "scope"]
    /\ encoder = NoEncoder
    /\ buffer = <<>>
    /\ length = 0
    /\ min = 0
    /\ result = Pending
    /\ supplied = <<>>

\* an encode operation with `tag` has returned o on the scope
Applied(o, tag) ==
    /\ Len(supplied) < MaxOps
    /\ self' = o.encoder
    /\ result' = o.res
    /\ supplied' = Append(supplied, tag)
    /\ UNCHANGED <<pc, call, encoder, buffer, length, min>>

ScopeEncodeBool ==
    /\ pc = "scope"
    /\ \E tag \in ScopeTags, v \in BOOLEAN : Applied(encode_bool(self, tag, v), tag)

ScopeEncodeInteger ==
    /\ pc = "scope"
    /\ \E tag \in ScopeTags, v \in 0..3 :
          Applied(encode_integer(self, tag, <<Extensible_new("Value", Bounded_new(0, 3))>>, v),
                  tag)

NextScope == ScopeEncodeBool \/ ScopeEncodeInteger

SpecScope == InitScope /\ [][NextScope]_vars

\* the bits a scope has accumulated: what bitstring_output starts from
Accumulated(enc) ==
    IF enc.options.set_encoding THEN Flatten(BTreeMap_values(enc.set_output))
    ELSE enc.output

\* C24: across successful encode operations on one scope the bit length of the
\* accumulated output never decreases and what an earlier operation wrote
\* stays: in a plain scope the old output is a prefix of the new one, in a SET
\* scope every buffer written before is still held.
C24_OutputGrows ==
    [][result' = Ok =>
          /\ BitLen(Accumulated(self')) >= BitLen(Accumulated(self))
          /\ IF self.options.set_encoding
             THEN \A i \in 1..Len(self.set_output) :
                     \E j \in 1..Len(self'.set_output) :
                        self'.set_output[j] = self.set_output[i]
             ELSE IsPrefix(self.output, self'.output)]_vars


-----------------------------------------------------------------------------
(* Termination of the fragmentation loop *)

\* encode_unconstrained_length reached through encode_length without a
\* constraint, on an empty buffer
InitFragmentation ==
    /\ InitLength
    /\ call.constraints = None
    /\ call.buffer = <<>>
    /\ call.fn.w = 1

\* the call runs to its return: the loop body is taken whenever it can be
SpecFragmentation == InitFragmentation /\ [][NextLength]_vars /\ WF_vars(NextLength)

\* C25: encode_unconstrained_length terminates for every length: each
\* iteration of the fragmentation loop that stays in the loop strictly
\* decreases the remaining length, and once the remaining length is below
\* 16384 the next step (the recursive call) returns without entering the loop
\* again.
C25_Terminates ==
    /\ <>(pc = "done")
    /\ [][pc = "loop" =>
             /\ pc' = "loop" => length' < length
             /\ length < SIXTEEN_K => pc' = "done"]_vars

\* a length that takes more than one iteration has returned
C25_Witness ==
    /\ pc = "done" /\ UnconstrainedCall /\ result = Ok
    /\ call.length >= 5 * SIXTEEN_K + 1


-----------------------------------------------------------------------------
(* The ranges handed to the content callback (SpecLength) *)

\* the non-empty index ranges the callback was called with, in call order
Ranges_called(buf) ==
    SelectSeq(buf, LAMBDA c : c.k = "content" /\ c.lo < c.hi)

\* C26: the non-empty index ranges that encode_unconstrained_length (started
\* with min = 0) passes to the callback partition [0, length) in call order:
\* the first starts at 0, each next one starts where the previous ended, and
\* the last ends at length.
C26_RangesPartition ==
    (pc = "done" /\ UnconstrainedCall /\ result = Ok) =>
        LET called == Ranges_called(Appended) IN
        /\ call.length > 0 => called # <<>>
        /\ called # <<>> =>
              /\ called[1].lo = 0
              /\ called[Len(called)].hi = call.length
              /\ \A i \in 1..(Len(called) - 1) : called[i + 1].lo = called[i].hi


-----------------------------------------------------------------------------
(* Injectivity of the constrained integer encoding (SpecInteger) *)

\* C27: under a Value constraint with both bounds and range < 65536, in either
\* variant, no other value inside the bounds has the encoding of the value
\* just encoded.
C27_IntegerInjective ==
    (/\ pc = "done" /\ HasValue
     /\ IsSome(ValueRange.start) /\ IsSome(ValueRange.end)
     /\ Unwrap(ValueRange.end) - Unwrap(ValueRange.start) + 1 < SIXTY_FOUR_K
     /\ InRange(ValueRange, call.value)) =>
        /\ result = Ok
        /\ \A other \in Unwrap(ValueRange.start)..Unwrap(ValueRange.end) :
              other # call.value =>
                  encode_integer(Encoder_new(self.options), call.tag, call.constraints,
                                 other).encoder.output # self.output


-----------------------------------------------------------------------------
(* The content of an octet string (SpecPrimitive) *)

\* C28: for an octet string whose length satisfies its non-extensible Size
\* constraint, encode_octet_string returns normally and what it appends ends
\* with all of the value's octets (8 bits each); a non-empty value never has
\* an empty encoding.
C28_OctetStringContent ==
    (/\ pc = "done" /\ call.op = "encode_octet_string"
     /\ Len(call.constraints) = 1
     /\ IsSome(Constraints_size(call.constraints))
     /\ ~Unwrap(Constraints_size(call.constraints)).extensible
     /\ InRange(Unwrap(Constraints_size(call.constraints)).constraint, Len(call.value))) =>
        /\ result = Ok
        /\ IsSuffix(from_slice(call.value), self.output)
        /\ call.value # <<>> => self.output # <<>>


-----------------------------------------------------------------------------
(* src/types/variants.rs: Variants::smallest_tag, and SpecVariants *)

\* u32::MAX (4294967295) is above the integers of the model's arithmetic; the
\* largest of those stands for it: only its order against field tags matters
U32_MAX == 2147483647

\* Tag::new_private: class PRIVATE is the last of the four classes
new_private(value) == <<3, value>>

\* the `while i < self.fields.len()` loop; its body leaves i as it is
RECURSIVE smallest_tag_loop(_, _, _)
smallest_tag_loop(fields, i, tag) ==
    IF i < Len(fields)
    THEN smallest_tag_loop(fields, i,
                           IF Tag_less(fields[i + 1].tag, tag) THEN fields[i + 1].tag ELSE tag)
    ELSE tag

\* Variants::smallest_tag
Variants_smallest_tag(fields) ==
    smallest_tag_loop(fields, Len(fields), new_private(U32_MAX))

MaxFields == 3     \* fields of a Variants list

VariantTags == {BOOLEAN_TAG, INTEGER, CONTEXT_0, new_private(0)}

InitVariants ==
    /\ pc = "call"
    /\ self = NoEncoder
    /\ \E ts \in SeqsUpTo(VariantTags, MaxFields) \ {<<>>} :
          call = [op |-> "smallest_tag", fields |-> [i \in 1..Len(ts) |-> [tag |-> ts[i]]]]
    /\ encoder = NoEncoder
    /\ buffer = <<>>
    /\ length = 0
    /\ min = 0
    /\ result = None
    /\ supplied = <<>>

SmallestTag ==
    /\ pc = "call"
    /\ call.op = "smallest_tag"
    /\ result' = Some(Variants_smallest_tag(call.fields))
    /\ pc' = "done"
    /\ UNCHANGED <<call, self, encoder, buffer, length, min, supplied>>

NextVariants == SmallestTag

SpecVariants == InitVariants /\ [][NextVariants]_vars

\* C29: Variants::smallest_tag returns the least tag, in the canonical tag
\* order, among the tags of its fields, for every non-empty field list.
C29_SmallestTag ==
    (pc = "done" /\ call.op = "smallest_tag") =>
        /\ \E i \in 1..Len(call.fields) : call.fields[i].tag = Unwrap(result)
        /\ \A j \in 1..Len(call.fields) : ~Tag_less(call.fields[j].tag, Unwrap(result))

====
